---- MODULE Spec2Model ----
(***************************************************************************)
(* Entity deduplication across two knowledge graphs: the modular pipeline  *)
(* of src/modular_methods (candidate selection, literal adjudication,      *)
(* result assembly) as a state machine.                                    *)
(*                                                                         *)
(* Conventions of the model:                                               *)
(*  - a Python float is an exact rational <<num, den>>, den > 0, in lowest *)
(*    terms (0.7 is <<7, 10>>);                                            *)
(*  - a Python str holding a literal value is a sequence of one-character  *)
(*    strings (<<"i", "b", "m">>); identifiers, predicate names and        *)
(*    labels, which the code only compares and sorts, are TLA+ strings;    *)
(*  - Python None is the empty tuple <<>> where a float may stand, and     *)
(*    the string "None" where a str may stand;                             *)
(*  - an RDF term is a record [kind, val], kind being "URIRef", "BNode"    *)
(*    or "Literal"; a graph is a set of triples <<s, p, o>>.               *)
(***************************************************************************)
EXTENDS Integers, Sequences, FiniteSets, TLC

VARIABLES
    pc,             \* position of the run: which call has returned
    graph1,         \* phkg_graph, the source graph
    graph2,         \* skg_graph / g2, the target graph
    sim_matrix,     \* match_entities: the similarity matrix (rows x columns)
    ids1,           \* match_entities: row identifiers
    ids2,           \* match_entities: column identifiers
    threshold,      \* similarity threshold
    top_k,          \* candidates taken per column
    filter_literals,\* deduplicate_graphs: whether the literal adjudication runs
    matches,        \* candidate list: (ent1, ent2, score)
    literals1,      \* Levenshtein_filter: literal maps of the source entities
    literals2,      \* Levenshtein_filter: literal maps of the target entities
    filter,         \* Levenshtein_filter: the fail-dropping flag
    acronym_boost,  \* Levenshtein_filter: the boost value
    filtered,       \* Levenshtein_filter: the adjudicated pairs
    build_matches,  \* build_final_result: its `matches` argument
    final_result,   \* build_final_result: the records it returns
    error,          \* the exception that ended the run, or "none"
    second_run,     \* what deduplicate_graphs returns when the run is repeated
    call,           \* a single function call: [fn, arg]
    ret             \* the value that call returned

vars == <<pc, graph1, graph2, sim_matrix, ids1, ids2, threshold, top_k, filter_literals, matches,
          literals1, literals2, filter, acronym_boost, filtered, build_matches,
          final_result, error, second_run, call, ret>>

\* the variables of the repeated run and of the single calls
aux == <<second_run, call, ret>>

-----------------------------------------------------------------------------
(* Floats as exact rationals.                                              *)

RECURSIVE GCD(_, _)
GCD(a, b) == IF b = 0 THEN a ELSE GCD(b, a % b)

Abs(n) == IF n < 0 THEN -n ELSE n

Rat(n, d) ==
    LET g == GCD(Abs(n), d)
    IN  IF n = 0 THEN <<0, 1>> ELSE <<n \div g, d \div g>>

RatAdd(a, b) == Rat(a[1] * b[2] + b[1] * a[2], a[2] * b[2])
RatDivInt(a, k) == Rat(a[1], a[2] * k)
RatGeq(a, b) == a[1] * b[2] >= b[1] * a[2]
RatLt(a, b) == a[1] * b[2] < b[1] * a[2]
RatMax(a, b) == IF RatLt(a, b) THEN b ELSE a

None == <<>>

-----------------------------------------------------------------------------
(* Python str operations on literal values.                                *)

UpperMap ==
    ("a" :> "A") @@ ("b" :> "B") @@ ("c" :> "C") @@ ("d" :> "D") @@
    ("e" :> "E") @@ ("i" :> "I") @@ ("j" :> "J") @@ ("m" :> "M") @@
    ("n" :> "N") @@ ("o" :> "O") @@ ("x" :> "X") @@
    ("l" :> "L") @@ ("p" :> "P") @@ ("u" :> "U")

LowerMap == [u \in {UpperMap[c] : c \in DOMAIN UpperMap} |->
                CHOOSE c \in DOMAIN UpperMap : UpperMap[c] = u]

Digits == {"0", "1", "2"}

\* \w of the re module: letters, digits and the underscore
IsWordChar(c) ==
    c \in DOMAIN UpperMap \/ c \in DOMAIN LowerMap \/ c \in Digits \/ c = "_"

lower(s) == [i \in 1..Len(s) |-> IF s[i] \in DOMAIN LowerMap THEN LowerMap[s[i]] ELSE s[i]]
upper(s) == [i \in 1..Len(s) |-> IF s[i] \in DOMAIN UpperMap THEN UpperMap[s[i]] ELSE s[i]]

\* s.replace(" ", "")
IsNotSpace(c) == c # " "
replace_spaces(s) == SelectSeq(s, IsNotSpace)

\* re.findall(r'\b\w', s): the word characters that stand at a word boundary
RECURSIVE findall_word_starts(_, _)
findall_word_starts(s, i) ==
    IF i > Len(s) THEN <<>>
    ELSE IF IsWordChar(s[i]) /\ (i = 1 \/ ~IsWordChar(s[i - 1]))
         THEN <<s[i]>> \o findall_word_starts(s, i + 1)
         ELSE findall_word_starts(s, i + 1)

\* the first character of every run of characters other than the space
RECURSIVE findall_token_starts(_, _)
findall_token_starts(s, i) ==
    IF i > Len(s) THEN <<>>
    ELSE IF s[i] # " " /\ (i = 1 \/ s[i - 1] = " ")
         THEN <<s[i]>> \o findall_token_starts(s, i + 1)
         ELSE findall_token_starts(s, i + 1)

\* an acronym of the words that spaces delimit
get_acronym_of_tokens(s) == upper(findall_token_starts(s, 1))

get_acronym(s) == upper(findall_word_starts(s, 1))

-----------------------------------------------------------------------------
(* difflib.SequenceMatcher(None, a, b).ratio(), without junk (isjunk is    *)
(* None and autojunk only acts on sequences of 200 or more elements).      *)

\* length of the longest common prefix of a[i..ahi-1] and b[j..bhi-1] (1-based, hi exclusive)
RECURSIVE common_prefix(_, _, _, _, _, _)
common_prefix(a, b, i, j, ahi, bhi) ==
    IF i < ahi /\ j < bhi /\ a[i] = b[j]
    THEN 1 + common_prefix(a, b, i + 1, j + 1, ahi, bhi)
    ELSE 0

\* the longest matching block in a[alo..ahi-1], b[blo..bhi-1]; of the longest,
\* the one that starts earliest in a, and of those the earliest in b
find_longest_match(a, b, alo, ahi, blo, bhi) ==
    LET cand == {<<i, j, common_prefix(a, b, i, j, ahi, bhi)>> :
                    i \in alo..(ahi - 1), j \in blo..(bhi - 1)}
        best(m) == \A o \in cand :
                      \/ o[3] < m[3]
                      \/ o[3] = m[3] /\ (m[1] < o[1] \/ (m[1] = o[1] /\ m[2] <= o[2]))
    IN  CHOOSE m \in cand : best(m)

\* the total size of get_matching_blocks()
RECURSIVE matching_size(_, _, _, _, _, _)
matching_size(a, b, alo, ahi, blo, bhi) ==
    IF alo >= ahi \/ blo >= bhi THEN 0
    ELSE LET m == find_longest_match(a, b, alo, ahi, blo, bhi)
         IN  IF m[3] = 0 THEN 0
             ELSE m[3] + matching_size(a, b, alo, m[1], blo, m[2])
                       + matching_size(a, b, m[1] + m[3], ahi, m[2] + m[3], bhi)

normalized_levenshtein(a, b) ==
    LET length == Len(a) + Len(b)
    IN  IF length = 0 THEN <<1, 1>>
        ELSE Rat(2 * matching_size(a, b, 1, Len(a) + 1, 1, Len(b) + 1), length)

-----------------------------------------------------------------------------
(* Candidate selection.                                                    *)

\* Series.nlargest(n), keep='first': the row positions of the n largest values of
\* a column, largest first, equal values in row order; n <= 0 selects nothing and
\* n >= len(column) selects every row
nlargest(col, n) ==
    LET N == Len(col)
        Before(i, k) == RatLt(col[k], col[i]) \/ (col[i] = col[k] /\ i < k)
        Rank(i) == Cardinality({k \in 1..N : Before(k, i)}) + 1
        m == IF n <= 0 THEN 0 ELSE IF n >= N THEN N ELSE n
    IN  [r \in 1..m |-> CHOOSE i \in 1..N : Rank(i) = r]

\* df_sim[g2_entity]: column j of the matrix
Column(matrix, j) == [i \in 1..Len(matrix) |-> matrix[i][j]]

\* column_matches with nlargest(top_k + 1): one candidate too many per column
column_matches_one_more(matrix, rows, cols, thr, k, j) ==
    LET col == Column(matrix, j)
        top_matches == nlargest(col, k + 1)
        AtLeast(i) == RatGeq(col[i], thr)
        kept == SelectSeq(top_matches, AtLeast)
    IN  [r \in 1..Len(kept) |-> <<rows[kept[r]], cols[j], col[kept[r]]>>]

\* column_matches with head(top_k) in place of nlargest(top_k): the first rows,
\* not the most similar ones
column_matches_head(matrix, rows, cols, thr, k, j) ==
    LET col == Column(matrix, j)
        m == IF k <= 0 THEN 0 ELSE IF k >= Len(col) THEN Len(col) ELSE k
        top_matches == [r \in 1..m |-> r]
        AtLeast(i) == RatGeq(col[i], thr)
        kept == SelectSeq(top_matches, AtLeast)
    IN  [r \in 1..Len(kept) |-> <<rows[kept[r]], cols[j], col[kept[r]]>>]

\* column_matches with `sim > threshold`: a cell equal to the threshold is left out
column_matches_above(matrix, rows, cols, thr, k, j) ==
    LET col == Column(matrix, j)
        top_matches == nlargest(col, k)
        Above(i) == RatLt(thr, col[i])
        kept == SelectSeq(top_matches, Above)
    IN  [r \in 1..Len(kept) |-> <<rows[kept[r]], cols[j], col[kept[r]]>>]

\* the inner loop of match_entities for the column at position j
column_matches(matrix, rows, cols, thr, k, j) ==
    LET col == Column(matrix, j)
        top_matches == nlargest(col, k)
        AtLeast(i) == RatGeq(col[i], thr)
        kept == SelectSeq(top_matches, AtLeast)
    IN  [r \in 1..Len(kept) |-> <<rows[kept[r]], cols[j], col[kept[r]]>>]

RECURSIVE match_columns(_, _, _, _, _, _)
match_columns(matrix, rows, cols, thr, k, j) ==
    IF j > Len(cols) THEN <<>>
    ELSE column_matches(matrix, rows, cols, thr, k, j)
            \o match_columns(matrix, rows, cols, thr, k, j + 1)

match_entities(matrix, rows, cols, thr, k) == match_columns(matrix, rows, cols, thr, k, 1)

-----------------------------------------------------------------------------
(* Literal adjudication.                                                   *)

\* str(term) of an rdflib term: its text, without its kind
str(term) == term.val

URIRef(id) == [kind |-> "URIRef", val |-> id]

EmptyDict == <<>>

\* d.get(k, default)
dict_get(d, k, default) == IF k \in DOMAIN d THEN d[k] ELSE default

\* the table with another default: 0.8 outside 1..5
literal_based_threshold_low_default(n_literals) ==
    CASE n_literals = 1 -> <<2, 5>>
      [] n_literals = 2 -> <<11, 20>>
      [] n_literals = 3 -> <<7, 10>>
      [] n_literals = 4 -> <<4, 5>>
      [] n_literals = 5 -> <<17, 20>>
      [] OTHER -> <<4, 5>>

literal_based_threshold(n_literals) ==
    CASE n_literals = 1 -> <<2, 5>>
      [] n_literals = 2 -> <<11, 20>>
      [] n_literals = 3 -> <<7, 10>>
      [] n_literals = 4 -> <<4, 5>>
      [] n_literals = 5 -> <<17, 20>>
      [] OTHER -> <<17, 20>>

\* the acronym check on one side only: the acronym of the first value against
\* the second value
predicate_similarity_one_sided(v1, v2, boost) ==
    LET val1 == lower(v1)
        val2 == lower(v2)
        sim == normalized_levenshtein(val1, val2)
        acronym1 == get_acronym(val1)
    IN  IF acronym1 = upper(replace_spaces(val2))
        THEN RatMax(sim, boost)
        ELSE sim

\* the body of the loop over common_preds: the score of one shared predicate
predicate_similarity(v1, v2, boost) ==
    LET val1 == lower(v1)
        val2 == lower(v2)
        sim == normalized_levenshtein(val1, val2)
        acronym1 == get_acronym(val1)
        acronym2 == get_acronym(val2)
    IN  IF acronym1 = upper(replace_spaces(val2)) \/ acronym2 = upper(replace_spaces(val1))
        THEN RatMax(sim, boost)
        ELSE sim

\* sum(sim_scores) over the shared predicates
RECURSIVE sum_sim_scores(_, _, _, _)
sum_sim_scores(preds, preds1, preds2, boost) ==
    IF preds = {} THEN <<0, 1>>
    ELSE LET p == CHOOSE q \in preds : TRUE
         IN  RatAdd(predicate_similarity(preds1[p], preds2[p], boost),
                    sum_sim_scores(preds \ {p}, preds1, preds2, boost))

\* the shared predicates of a candidate
common_preds_of(ent1, ent2, lits1, lits2) ==
    DOMAIN dict_get(lits1, str(ent1), EmptyDict) \cap DOMAIN dict_get(lits2, str(ent2), EmptyDict)

\* the sum of the scores in the place of their mean
avg_sim_of_sum(ent1, ent2, lits1, lits2, boost) ==
    LET preds1 == dict_get(lits1, str(ent1), EmptyDict)
        preds2 == dict_get(lits2, str(ent2), EmptyDict)
        common_preds == DOMAIN preds1 \cap DOMAIN preds2
    IN  sum_sim_scores(common_preds, preds1, preds2, boost)

\* avg_sim of a candidate that shares at least one predicate
avg_sim_of(ent1, ent2, lits1, lits2, boost) ==
    LET preds1 == dict_get(lits1, str(ent1), EmptyDict)
        preds2 == dict_get(lits2, str(ent2), EmptyDict)
        common_preds == DOMAIN preds1 \cap DOMAIN preds2
    IN  RatDivInt(sum_sim_scores(common_preds, preds1, preds2, boost), Cardinality(common_preds))

\* adjudicate with a strict comparison: "pass" only above the threshold
adjudicate_strict(match, lits1, lits2, flt, boost) ==
    LET ent1 == match[1]
        ent2 == match[2]
        score == match[3]
        common_preds == common_preds_of(ent1, ent2, lits1, lits2)
        n_literals == Cardinality(common_preds)
    IN  IF common_preds = {} THEN <<>>
        ELSE LET avg_sim == avg_sim_of(ent1, ent2, lits1, lits2, boost)
                 thr == literal_based_threshold(n_literals)
                 passes == RatLt(thr, avg_sim)
             IN  IF passes THEN << <<ent1, ent2, score, avg_sim, "pass">> >>
                 ELSE IF flt /\ n_literals >= 3 THEN <<>>
                 ELSE << <<ent1, ent2, score, avg_sim, "fail">> >>

\* adjudicate without the `continue` on an empty intersection: the candidate
\* goes on with avg_sim 0 (the `if sim_scores else 0` of the code)
adjudicate_no_continue(match, lits1, lits2, flt, boost) ==
    LET ent1 == match[1]
        ent2 == match[2]
        score == match[3]
        common_preds == common_preds_of(ent1, ent2, lits1, lits2)
        n_literals == Cardinality(common_preds)
        avg_sim == IF common_preds = {} THEN <<0, 1>>
                   ELSE avg_sim_of(ent1, ent2, lits1, lits2, boost)
        thr == literal_based_threshold(n_literals)
    IN  IF RatGeq(avg_sim, thr) THEN << <<ent1, ent2, score, avg_sim, "pass">> >>
        ELSE IF flt /\ n_literals >= 3 THEN <<>>
        ELSE << <<ent1, ent2, score, avg_sim, "fail">> >>

\* adjudicate with the fail-dropping rule off by one: fails are kept up to 3
\* shared predicates
adjudicate_keep_three(match, lits1, lits2, flt, boost) ==
    LET ent1 == match[1]
        ent2 == match[2]
        score == match[3]
        common_preds == common_preds_of(ent1, ent2, lits1, lits2)
        n_literals == Cardinality(common_preds)
    IN  IF common_preds = {} THEN <<>>
        ELSE LET avg_sim == avg_sim_of(ent1, ent2, lits1, lits2, boost)
                 thr == literal_based_threshold(n_literals)
             IN  IF RatGeq(avg_sim, thr) THEN << <<ent1, ent2, score, avg_sim, "pass">> >>
                 ELSE IF flt /\ n_literals > 3 THEN <<>>
                 ELSE << <<ent1, ent2, score, avg_sim, "fail">> >>

\* one iteration of the loop of Levenshtein_filter: what it appends for a candidate
adjudicate(match, lits1, lits2, flt, boost) ==
    LET ent1 == match[1]
        ent2 == match[2]
        score == match[3]
        common_preds == common_preds_of(ent1, ent2, lits1, lits2)
        n_literals == Cardinality(common_preds)
    IN  IF common_preds = {} THEN <<>>
        ELSE LET avg_sim == avg_sim_of(ent1, ent2, lits1, lits2, boost)
                 thr == literal_based_threshold(n_literals)
             IN  IF flt
                 THEN IF RatGeq(avg_sim, thr) THEN << <<ent1, ent2, score, avg_sim, "pass">> >>
                      ELSE IF RatLt(avg_sim, thr) /\ n_literals < 3
                           THEN << <<ent1, ent2, score, avg_sim, "fail">> >>
                           ELSE <<>>
                 ELSE IF RatGeq(avg_sim, thr) THEN << <<ent1, ent2, score, avg_sim, "pass">> >>
                      ELSE IF RatLt(avg_sim, thr)
                           THEN << <<ent1, ent2, score, avg_sim, "fail">> >>
                           ELSE <<>>

\* Levenshtein_filter putting each record in front of the ones kept before
RECURSIVE Levenshtein_filter_prepend(_, _, _, _, _)
Levenshtein_filter_prepend(ms, lits1, lits2, flt, boost) ==
    IF ms = <<>> THEN <<>>
    ELSE Levenshtein_filter_prepend(Tail(ms), lits1, lits2, flt, boost)
            \o adjudicate(Head(ms), lits1, lits2, flt, boost)

RECURSIVE Levenshtein_filter(_, _, _, _, _)
Levenshtein_filter(ms, lits1, lits2, flt, boost) ==
    IF ms = <<>> THEN <<>>
    ELSE adjudicate(Head(ms), lits1, lits2, flt, boost)
            \o Levenshtein_filter(Tail(ms), lits1, lits2, flt, boost)

\* the loop body of Levenshtein_filter_flag with every fail kept
adjudicate_flag_keep_fails(match, lits1, lits2, boost) ==
    LET ent1 == match[1]
        ent2 == match[2]
        score == match[3]
        common_preds == common_preds_of(ent1, ent2, lits1, lits2)
        n_literals == Cardinality(common_preds)
    IN  IF common_preds = {} THEN <<>>
        ELSE LET avg_sim == avg_sim_of(ent1, ent2, lits1, lits2, boost)
                 thr == literal_based_threshold(n_literals)
             IN  IF RatGeq(avg_sim, thr) THEN << <<ent1, ent2, score, avg_sim, "pass">> >>
                 ELSE << <<ent1, ent2, score, avg_sim, "fail">> >>

\* one iteration of the loop of Levenshtein_filter_flag
adjudicate_flag(match, lits1, lits2, boost) ==
    LET ent1 == match[1]
        ent2 == match[2]
        score == match[3]
        common_preds == common_preds_of(ent1, ent2, lits1, lits2)
        n_literals == Cardinality(common_preds)
    IN  IF common_preds = {} THEN <<>>
        ELSE LET avg_sim == avg_sim_of(ent1, ent2, lits1, lits2, boost)
                 thr == literal_based_threshold(n_literals)
             IN  IF RatGeq(avg_sim, thr) THEN << <<ent1, ent2, score, avg_sim, "pass">> >>
                 ELSE IF RatLt(avg_sim, thr) /\ n_literals < 3
                      THEN << <<ent1, ent2, score, avg_sim, "fail">> >>
                      ELSE <<>>

RECURSIVE Levenshtein_filter_flag(_, _, _, _)
Levenshtein_filter_flag(ms, lits1, lits2, boost) ==
    IF ms = <<>> THEN <<>>
    ELSE adjudicate_flag(Head(ms), lits1, lits2, boost)
            \o Levenshtein_filter_flag(Tail(ms), lits1, lits2, boost)

\* the defaults of Levenshtein_filter's keyword parameters
DefaultFilter == TRUE
DefaultAcronymBoost == <<19, 20>>

-----------------------------------------------------------------------------
(* Graph traversal (graphToText_utils).                                    *)

BNode(id) == [kind |-> "BNode", val |-> id]
Literal(chars) == [kind |-> "Literal", val |-> chars]

RDF_type == URIRef("http://www.w3.org/1999/02/22-rdf-syntax-ns#type")

\* the URIs of the model, parsed: whether the URI starts with http(s)://schema.org/,
\* its part after the last "/", and its fragment (urlparse(uri).fragment)
ParsedURI ==
    ("http://schema.org/name" :> [schema |-> TRUE, last |-> "name", fragment |-> ""]) @@
    ("http://schema.org/email" :> [schema |-> TRUE, last |-> "email", fragment |-> ""]) @@
    ("http://schema.org/telephone" :> [schema |-> TRUE, last |-> "telephone", fragment |-> ""]) @@
    ("http://schema.org/identifier" :> [schema |-> TRUE, last |-> "identifier", fragment |-> ""]) @@
    ("http://schema.org/address" :> [schema |-> TRUE, last |-> "address", fragment |-> ""]) @@
    ("http://schema.org/Person" :> [schema |-> TRUE, last |-> "Person", fragment |-> ""]) @@
    ("http://schema.org/Organization" :> [schema |-> TRUE, last |-> "Organization", fragment |-> ""]) @@
    ("http://example.org/ns#name" :> [schema |-> FALSE, last |-> "ns#name", fragment |-> "name"]) @@
    ("http://www.w3.org/1999/02/22-rdf-syntax-ns#type" :>
        [schema |-> FALSE, last |-> "22-rdf-syntax-ns#type", fragment |-> "type"])

get_prefixed_predicate(uri) ==
    LET u == ParsedURI[uri]
    IN  IF u.schema THEN "schema:" \o u.last
        ELSE IF u.fragment # "" THEN u.fragment ELSE u.last

WEAK_PREDICATES == {"schema:identifier"}

\* graph.predicate_objects(subject)
predicate_objects(graph, subject) == {<<t[2], t[3]>> : t \in {u \in graph : u[1] = subject}}

\* traverse(subject, visited) of traverse_graph_and_get_literals; visit_edges is
\* its loop over the (predicate, object) pairs still to visit
RECURSIVE traverse(_, _, _)
RECURSIVE visit_edges(_, _, _, _)
visit_edges(graph, subject, edges, visited) ==
    IF edges = {} THEN visited
    ELSE LET e == CHOOSE x \in edges : TRUE
             pred_str == get_prefixed_predicate(str(e[1]))
             obj == e[2]
             after ==
                 IF obj.kind = "Literal" /\ pred_str \notin WEAK_PREDICATES
                 THEN [visited EXCEPT ![str(subject)] =
                          [q \in DOMAIN @ \cup {pred_str} |->
                              IF q = pred_str THEN str(obj) ELSE @[q]]]
                 ELSE IF obj.kind \in {"URIRef", "BNode"}
                      THEN traverse(graph, obj, visited)
                      ELSE visited
         IN  visit_edges(graph, subject, edges \ {e}, after)

traverse(graph, subject, visited) ==
    IF str(subject) \in DOMAIN visited THEN visited
    ELSE visit_edges(graph, subject, predicate_objects(graph, subject),
                     [k \in DOMAIN visited \cup {str(subject)} |->
                         IF k = str(subject) THEN EmptyDict ELSE visited[k]])

traverse_graph_and_get_literals(graph, subject) == traverse(graph, subject, EmptyDict)

get_literals_for_entities(graph, entities) ==
    [k \in {str(e) : e \in entities} |->
        LET e == CHOOSE x \in entities : str(x) = k
        IN  dict_get(traverse_graph_and_get_literals(graph, e), str(e), EmptyDict)]

-----------------------------------------------------------------------------
(* Result assembly (output_utils).                                         *)

\* str(float(x)): the text of a float, kept apart from the float itself
str_float(x) == [text_of |-> x]

\* the predicate labels of the model in the order Python's sorted() gives them
SortedLabels == <<"name", "schema:address", "schema:email", "schema:name", "schema:telephone">>

\* sorted(labels)
sorted(labels) ==
    LET IsIn(l) == l \in labels
    IN  SelectSeq(SortedLabels, IsIn)

\* the "predicates" listing of one entity: the predicates of all_predicates it has
\* a listing with an entry for every predicate of the union, "N/A" where the
\* entity has none
predicate_listing_all(all_predicates, entity_predicates) ==
    [i \in 1..Len(all_predicates) |->
        [predicate |-> all_predicates[i],
         object |-> dict_get(entity_predicates, all_predicates[i], <<"N", "/", "A">>)]]

predicate_listing(all_predicates, entity_predicates) ==
    LET Has(pred) == pred \in DOMAIN entity_predicates
        own == SelectSeq(all_predicates, Has)
    IN  [i \in 1..Len(own) |->
            [predicate |-> own[i], object |-> dict_get(entity_predicates, own[i], <<"N", "/", "A">>)]]

\* tier with exclusive lower bounds: 0.9 itself "similar", 0.7 itself "conflict"
tier_exclusive(x) ==
    IF RatLt(<<9, 10>>, x) THEN "near-exact"
    ELSE IF RatLt(<<7, 10>>, x) THEN "similar"
    ELSE "conflict"

\* the tiers with near-exact from 0.85 on
tier_from_085(x) ==
    IF RatGeq(x, <<17, 20>>) THEN "near-exact"
    ELSE IF RatGeq(x, <<7, 10>>) THEN "similar"
    ELSE "conflict"

\* the three tiers of a similarity value
tier(x) ==
    IF RatGeq(x, <<9, 10>>) THEN "near-exact"
    ELSE IF RatGeq(x, <<7, 10>>) THEN "similar"
    ELSE "conflict"

Unbound == "<unbound>"

\* build_entry with the exact-match test made on `status` (the commented-out
\* `"flagged" if status == "flagged"` line of the code, revived for 'exact')
build_entry_flag_in_status(match, g1, g2, graph1_name, graph2_name, duplication_type) ==
    LET result_entry == [entities |-> << [entity1 |-> [from |-> graph1_name, subject |-> str(match[1]),
                                                        predicates |-> <<>>]],
                                          [entity2 |-> [from |-> graph2_name, subject |-> str(match[2]),
                                                        predicates |-> <<>>]] >>,
                         similarity_score |-> str_float(match[3])]
        label == IF match[5] = "exact" THEN "true_duplicate"
                 ELSE IF match[4] # None THEN tier(match[4]) ELSE tier(match[3])
    IN  [entry |-> result_entry @@ [duplication_type |-> label],
         duplication_type |-> label,
         error |-> IF match[4] = None /\ duplication_type = Unbound
                   THEN "UnboundLocalError" ELSE "none"]

\* one iteration of the loop of build_final_result on a six-element match;
\* duplication_type is the function's local variable as the previous iterations
\* left it (Unbound before its first assignment).  The result: the record
\* appended, the local variable afterwards and the exception raised, if any
build_entry(match, g1, g2, graph1_name, graph2_name, duplication_type) ==
    LET ent1 == match[1]
        ent2 == match[2]
        score == match[3]
        avg_sim == match[4]
        status == match[5]
        true_duplicate == match[6]
        entity1_predicates == dict_get(traverse_graph_and_get_literals(g1, ent1), str(ent1), EmptyDict)
        entity2_predicates == dict_get(traverse_graph_and_get_literals(g2, ent2), str(ent2), EmptyDict)
        all_predicates == sorted(DOMAIN entity1_predicates \cup DOMAIN entity2_predicates)
        entity1_details == [from |-> graph1_name, subject |-> str(ent1),
                            predicates |-> predicate_listing(all_predicates, entity1_predicates)]
        entity2_details == [from |-> graph2_name, subject |-> str(ent2),
                            predicates |-> predicate_listing(all_predicates, entity2_predicates)]
        result_entry == [entities |-> << [entity1 |-> entity1_details],
                                          [entity2 |-> entity2_details] >>,
                         similarity_score |-> str_float(score)]
    IN  IF avg_sim # None
        THEN LET label == IF true_duplicate = "exact" THEN "true_duplicate" ELSE tier(avg_sim)
             IN  [entry |-> result_entry @@ [status |-> status,
                                             avg_literal_similarity |-> str_float(avg_sim),
                                             duplication_type |-> label],
                  duplication_type |-> label,
                  error |-> "none"]
        ELSE IF duplication_type = Unbound
             THEN [entry |-> result_entry, duplication_type |-> Unbound,
                   error |-> "UnboundLocalError"]
             ELSE LET label == IF duplication_type = "exact" THEN "true_duplicate" ELSE tier(score)
                  IN  [entry |-> result_entry @@ [duplication_type |-> label],
                       duplication_type |-> label,
                       error |-> "none"]

\* the loop of build_final_result from the matches `ms` on: final_result so far,
\* the local duplication_type; an exception ends the call without a result
RECURSIVE build_loop(_, _, _, _, _, _, _)
build_loop(ms, g1, g2, graph1_name, graph2_name, final, duplication_type) ==
    IF ms = <<>> THEN [final_result |-> final, error |-> "none"]
    ELSE IF Len(Head(ms)) # 6
         THEN [final_result |-> None, error |-> "ValueError"]
         ELSE LET step == build_entry(Head(ms), g1, g2, graph1_name, graph2_name, duplication_type)
              IN  IF step.error # "none"
                  THEN [final_result |-> None, error |-> step.error]
                  ELSE build_loop(Tail(ms), g1, g2, graph1_name, graph2_name,
                                  Append(final, step.entry), step.duplication_type)

\* build_final_result reading the first match before the loop: an empty list
\* raises
build_final_result_first_match(ms, g1, g2, graph1_name, graph2_name) ==
    IF ms = <<>> THEN [final_result |-> None, error |-> "IndexError"]
    ELSE build_loop(ms, g1, g2, graph1_name, graph2_name, <<>>, Unbound)

build_final_result(ms, g1, g2, graph1_name, graph2_name) ==
    build_loop(ms, g1, g2, graph1_name, graph2_name, <<>>, Unbound)

-----------------------------------------------------------------------------
(* Inputs.                                                                 *)

\* the largest top_k tried
MaxTopK == 3

\* entity identifiers; "e1" names an entity of both graphs
SourceEntities == <<URIRef("e1"), URIRef("e2"), URIRef("e3")>>
TargetEntities == <<URIRef("e1"), URIRef("e4")>>

Prefixes(s) == {SubSeq(s, 1, n) : n \in 0..Len(s)}

\* cosine similarities and thresholds tried (0.7 is the default threshold,
\* 0.6 the one the Run_* scripts pass)
SimValues == {<<-1, 5>>, <<13, 20>>, <<7, 10>>, <<9, 10>>}
Thresholds == {<<3, 5>>, <<7, 10>>}

Unused == <<>>

\* no repeated run, no single call
AuxUnused == second_run = Unused /\ call = Unused /\ ret = Unused

-----------------------------------------------------------------------------
(* SpecMatch: match_entities applied to every bounded matrix.              *)

InitMatch ==
    /\ pc = "start"
    /\ ids1 \in Prefixes(SourceEntities)
    /\ ids2 \in Prefixes(TargetEntities)
    /\ sim_matrix \in [1..Len(ids1) -> [1..Len(ids2) -> SimValues]]
    /\ threshold \in Thresholds
    /\ top_k \in 0..MaxTopK
    /\ filter_literals = FALSE
    /\ matches = <<>>
    /\ graph1 = {} /\ graph2 = {}
    /\ literals1 = EmptyDict /\ literals2 = EmptyDict
    /\ filter = DefaultFilter /\ acronym_boost = DefaultAcronymBoost
    /\ filtered = <<>> /\ build_matches = <<>> /\ final_result = <<>>
    /\ error = "none"
    /\ AuxUnused

CallMatchEntities ==
    /\ pc = "start"
    /\ matches' = match_entities(sim_matrix, ids1, ids2, threshold, top_k)
    /\ pc' = "matched"
    /\ UNCHANGED <<graph1, graph2, sim_matrix, ids1, ids2, threshold, top_k,
                   filter_literals, literals1, literals2, filter, acronym_boost, filtered,
                   build_matches, final_result, error, aux>>

NextMatch == CallMatchEntities

SpecMatch == InitMatch /\ [][NextMatch]_vars

\* the positions of `matches` that hold a candidate of column j
CandidatesOfColumn(j) == {r \in 1..Len(matches) : matches[r][2] = ids2[j]}

\* C5: match_entities returns at most top_k candidates for any one target
\* (column) entity, and every returned candidate has score >= threshold.
C5_TopKBound ==
    pc = "matched" =>
        /\ \A j \in 1..Len(ids2) : Cardinality(CandidatesOfColumn(j)) <= top_k
        /\ \A r \in 1..Len(matches) : RatGeq(matches[r][3], threshold)

\* a column with more than top_k rows at or above the threshold, cut to top_k
C5_Witness ==
    /\ pc = "matched"
    /\ top_k >= 1
    /\ \E j \in 1..Len(ids2) :
          /\ Cardinality(CandidatesOfColumn(j)) = top_k
          /\ Cardinality({i \in 1..Len(ids1) : RatGeq(sim_matrix[i][j], threshold)}) > top_k

\* whether the cell (row i, column j) was returned as a candidate
Returned(i, j) ==
    \E r \in 1..Len(matches) : matches[r][1] = ids1[i] /\ matches[r][2] = ids2[j]

\* C6: the candidates of a target t are the sources among the top_k most similar
\* rows of t's column that reach the threshold: each returned candidate carries
\* its cell's similarity, and a cell at or above the threshold is left out only
\* when top_k candidates with similarity at least as high were taken for t.
C6_TopKSelection ==
    pc = "matched" =>
        /\ \A r \in 1..Len(matches) :
              \E i \in 1..Len(ids1), j \in 1..Len(ids2) :
                 /\ matches[r] = <<ids1[i], ids2[j], sim_matrix[i][j]>>
                 /\ RatGeq(sim_matrix[i][j], threshold)
        /\ \A i \in 1..Len(ids1), j \in 1..Len(ids2) :
              (RatGeq(sim_matrix[i][j], threshold) /\ ~Returned(i, j)) =>
                 /\ Cardinality(CandidatesOfColumn(j)) = top_k
                 /\ \A r \in CandidatesOfColumn(j) :
                       RatGeq(matches[r][3], sim_matrix[i][j])

\* a row above the threshold is left out of a column in favour of a later row
\* that is strictly more similar
C6_Witness ==
    /\ pc = "matched"
    /\ \E j \in 1..Len(ids2), i, k \in 1..Len(ids1) :
          /\ i < k
          /\ RatGeq(sim_matrix[i][j], threshold)
          /\ RatLt(sim_matrix[i][j], sim_matrix[k][j])
          /\ ~Returned(i, j)
          /\ Returned(k, j)

-----------------------------------------------------------------------------
(* SpecLev: Levenshtein_filter applied to bounded candidate lists and      *)
(* literal maps.                                                           *)

\* the longest candidate list tried
MaxCandidates == 2

NAME == "schema:name"
EMAIL == "schema:email"
PHONE == "schema:telephone"

\* literal maps an entity may have
LiteralMaps == {
    EmptyDict,
    (NAME :> <<"a", "b">>),
    (NAME :> <<"A", "B">>),
    (NAME :> <<"a", "x", "x">>),
    (NAME :> <<"c", "d">>),
    (EMAIL :> <<"a", "b">>),
    (NAME :> <<"i", "b", "m">>) @@ (EMAIL :> <<"c", "d">>),
    (NAME :> <<"I", " ", "B", " ", "M">>) @@ (EMAIL :> <<"a", "b">>),
    (NAME :> <<"i", "b", "m">>) @@ (EMAIL :> <<"I", " ", "B", " ", "M">>),
    (NAME :> <<"I", " ", "B", " ", "M">>) @@ (EMAIL :> <<"i", "b", "m">>),
    (NAME :> <<"j", "@", "x">>),
    (NAME :> <<"j", "x">>),
    (NAME :> <<"a", "b">>) @@ (EMAIL :> <<"a", "b">>) @@ (PHONE :> <<"1", "2">>),
    (NAME :> <<"c", "d">>) @@ (EMAIL :> <<"c", "d">>) @@ (PHONE :> <<"1", "2">>)
}

\* literal maps for some of the entities `ids` (an entity may have no entry)
LiteralLookups(ids) == UNION {[D -> LiteralMaps] : D \in SUBSET ids}

LevSources == {URIRef("e1"), URIRef("e2")}
LevTargets == {URIRef("e1")}
CandidateScores == {<<7, 10>>, <<9, 10>>}

\* candidate lists as match_entities builds them: no (source, target) cell twice
DistinctPairs(ms) ==
    \A r, q \in 1..Len(ms) : r # q => <<ms[r][1], ms[r][2]>> # <<ms[q][1], ms[q][2]>>

CandidateLists ==
    {ms \in UNION {[1..n -> LevSources \X LevTargets \X CandidateScores] : n \in 0..MaxCandidates} :
        DistinctPairs(ms)}

InitLev ==
    /\ pc = "start"
    /\ matches \in CandidateLists
    /\ literals1 \in LiteralLookups({str(e) : e \in LevSources})
    /\ literals2 \in LiteralLookups({str(e) : e \in LevTargets})
    /\ filter \in BOOLEAN
    /\ acronym_boost = DefaultAcronymBoost
    /\ filtered = <<>>
    /\ graph1 = {} /\ graph2 = {}
    /\ sim_matrix = <<>> /\ ids1 = <<>> /\ ids2 = <<>>
    /\ threshold = Unused /\ top_k = 0 /\ filter_literals = TRUE
    /\ build_matches = <<>> /\ final_result = <<>>
    /\ error = "none"
    /\ AuxUnused

CallLevenshteinFilter ==
    /\ pc = "start"
    /\ filtered' = Levenshtein_filter(matches, literals1, literals2, filter, acronym_boost)
    /\ pc' = "filtered"
    /\ UNCHANGED <<graph1, graph2, sim_matrix, ids1, ids2, threshold, top_k, matches,
                   filter_literals, literals1, literals2, filter, acronym_boost,
                   build_matches, final_result, error, aux>>

CallLevenshteinFilterFlag ==
    /\ pc = "start"
    /\ filtered' = Levenshtein_filter_flag(matches, literals1, literals2, acronym_boost)
    /\ pc' = "flagged"
    /\ UNCHANGED <<graph1, graph2, sim_matrix, ids1, ids2, threshold, top_k, matches,
                   filter_literals, literals1, literals2, filter, acronym_boost,
                   build_matches, final_result, error, aux>>

NextLev == CallLevenshteinFilter \/ CallLevenshteinFilterFlag

SpecLev == InitLev /\ [][NextLev]_vars

\* the number of predicates the two entities of a pair share
SharedCount(ent1, ent2) ==
    Cardinality({p \in {NAME, EMAIL, PHONE} :
        /\ str(ent1) \in DOMAIN literals1 /\ p \in DOMAIN literals1[str(ent1)]
        /\ str(ent2) \in DOMAIN literals2 /\ p \in DOMAIN literals2[str(ent2)]})

\* the threshold table of the specification, n -> threshold
ThresholdTable(n) ==
    IF n = 1 THEN <<2, 5>> ELSE IF n = 2 THEN <<11, 20>> ELSE IF n = 3 THEN <<7, 10>>
    ELSE IF n = 4 THEN <<4, 5>> ELSE <<17, 20>>

\* whether the candidate at position r of `matches` is in `filtered`
Adjudicated(r) ==
    \E q \in 1..Len(filtered) :
        filtered[q][1] = matches[r][1] /\ filtered[q][2] = matches[r][2]

\* C2: an adjudicated pair has status "pass" exactly when its avg_similarity is
\* >= literal_based_threshold(n), and "fail" exactly when it is below, n being the
\* number of predicates the two literal maps share.
C2_StatusByThreshold ==
    pc = "filtered" =>
        \A q \in 1..Len(filtered) :
            LET rec == filtered[q]
                thr == ThresholdTable(SharedCount(rec[1], rec[2]))
            IN  /\ rec[5] \in {"pass", "fail"}
                /\ rec[5] = "pass" <=> rec[4][1] * thr[2] >= thr[1] * rec[4][2]
                /\ rec[5] = "fail" <=> rec[4][1] * thr[2] < thr[1] * rec[4][2]

\* a pair that passes with avg_similarity equal to the threshold, next to one that fails
C2_Witness ==
    /\ pc = "filtered"
    /\ \E q \in 1..Len(filtered) :
          /\ filtered[q][5] = "pass"
          /\ filtered[q][4] = ThresholdTable(SharedCount(filtered[q][1], filtered[q][2]))
    /\ \E q \in 1..Len(filtered) : filtered[q][5] = "fail"

\* C3 (as claimed): with the default fail-retention argument every candidate that
\* shares at least one predicate yields exactly one adjudicated pair.
C3_DefaultKeepsFails ==
    (pc = "filtered" /\ filter = DefaultFilter) =>
        \A r \in 1..Len(matches) :
            SharedCount(matches[r][1], matches[r][2]) >= 1 =>
                Cardinality({q \in 1..Len(filtered) :
                    filtered[q][1] = matches[r][1] /\ filtered[q][2] = matches[r][2]}) = 1

\* C4: a candidate whose literal maps share no predicate (an entity without a
\* literal map included) is in the adjudicated output under neither flag value.
C4_NoSharedDropped ==
    pc = "filtered" =>
        \A r \in 1..Len(matches) :
            SharedCount(matches[r][1], matches[r][2]) = 0 => ~Adjudicated(r)

\* a candidate whose two literal maps are not empty and share no predicate is
\* dropped, next to a candidate that is kept
C4_Witness ==
    /\ pc = "filtered"
    /\ Len(filtered) = 1
    /\ \E r \in 1..Len(matches) :
          /\ SharedCount(matches[r][1], matches[r][2]) = 0
          /\ str(matches[r][1]) \in DOMAIN literals1
          /\ literals1[str(matches[r][1])] # EmptyDict
          /\ str(matches[r][2]) \in DOMAIN literals2
          /\ literals2[str(matches[r][2])] # EmptyDict
          /\ ~Adjudicated(r)

-----------------------------------------------------------------------------
(* Graphs tried.                                                           *)

PERSON == "http://schema.org/Person"
ORGANIZATION == "http://schema.org/Organization"
NoType == ""

\* the triples that describe entity e: its rdf:type, if any, and its literals
Describe(e, type, lits) ==
    (IF type = NoType THEN {} ELSE {<<e, RDF_type, URIRef(type)>>})
        \cup {<<e, URIRef(p), Literal(lits[p])>> : p \in DOMAIN lits}

\* three shared predicates and the weak one
DescriptionA ==
    ("http://schema.org/name" :> <<"a", "b">>) @@ ("http://schema.org/email" :> <<"a", "b">>) @@
    ("http://schema.org/telephone" :> <<"1", "2">>) @@ ("http://schema.org/identifier" :> <<"0", "1">>)
\* as A, name and email differing
DescriptionB ==
    ("http://schema.org/name" :> <<"c", "d">>) @@ ("http://schema.org/email" :> <<"c", "d">>) @@
    ("http://schema.org/telephone" :> <<"1", "2">>)
\* a single predicate, differing from A's
DescriptionD == ("http://schema.org/name" :> <<"c", "d">>)
\* a predicate no other description has
DescriptionN == ("http://example.org/ns#name" :> <<"a", "b">>)

\* an address node with a literal of its own, hanging off entity e
AddressOf(e) ==
    {<<e, URIRef("http://schema.org/address"), BNode("b1")>>,
     <<BNode("b1"), URIRef("http://schema.org/name"), Literal(<<"x">>)>>}

EntityTypes == {NoType, PERSON, ORGANIZATION}

SourceGraphs ==
    {Describe(URIRef("e1"), t1, d1) \cup Describe(URIRef("e2"), t2, DescriptionB) \cup AddressOf(URIRef("e2")) :
        t1 \in EntityTypes, t2 \in EntityTypes, d1 \in {DescriptionA, DescriptionB, DescriptionD}}
        \cup {{}}

TargetGraphs ==
    {Describe(URIRef("e1"), t1, d1) \cup Describe(URIRef("e4"), t4, DescriptionA) :
        t1 \in EntityTypes, t4 \in EntityTypes, d1 \in {DescriptionA, DescriptionN}}
        \cup {{}}

-----------------------------------------------------------------------------
(* The pipeline: deduplicate_graphs, then build_final_result, as the Run_*  *)
(* scripts call them.                                                      *)

Perms(S) == {f \in [1..Cardinality(S) -> S] : \A i, j \in 1..Cardinality(S) : i # j => f[i] # f[j]}

\* graph.objects(s, RDF.type)
type_objects(graph, s) == {t[3] : t \in {u \in graph : u[1] = s /\ u[2] = RDF_type}}

\* the subjects get_entity_texts keeps: not blank nodes, with a type (the text of
\* a typed entity is never empty: it starts with "Type: ...")
typed_subjects(graph) ==
    {s \in {t[1] : t \in graph} : s.kind # "BNode" /\ type_objects(graph, s) # {}}

\* every entity under one and the same label
get_entity_texts_one_type(order, first_type) ==
    [i \in 1..Len(order) |-> <<order[i], "Thing">>]

\* get_entity_texts: the dict it returns, as the sequence of (entity, type label)
\* in insertion order.  `order` is the iteration order of set(graph.subjects())
\* and first_type[s] the first rdf:type object the store yields for s
get_entity_texts(order, first_type) ==
    [i \in 1..Len(order) |-> <<order[i], get_prefixed_predicate(str(first_type[order[i]]))>>]

\* group_by_type: the entities of one type, in the order of the dict
group_of(entity_texts, typ) ==
    LET OfType(x) == x[2] = typ
        sel == SelectSeq(entity_texts, OfType)
    IN  [i \in 1..Len(sel) |-> sel[i][1]]

group_keys(entity_texts) == {entity_texts[i][2] : i \in 1..Len(entity_texts)}

\* the position of x in the sequence s
IndexOf(s, x) == CHOOSE i \in 1..Len(s) : s[i] = x

\* the similarity matrix of one type: the cosine of every source entity of the
\* type (rows) with every target entity of the type (columns)
type_matrix(full, all1, all2, rows, cols) ==
    [i \in 1..Len(rows) |-> [j \in 1..Len(cols) |->
        full[IndexOf(all1, rows[i])][IndexOf(all2, cols[j])]]]

\* one selection over all the entities, types ignored
matches_by_type_global(type_order, texts1, texts2, full, all1, all2, cfg) ==
    match_entities(full, all1, all2, cfg.threshold, cfg.top_k)

\* the loop of deduplicate_graphs over the shared types, in the order type_order
RECURSIVE matches_by_type(_, _, _, _, _, _, _)
matches_by_type(type_order, texts1, texts2, full, all1, all2, cfg) ==
    IF type_order = <<>> THEN <<>>
    ELSE LET typ == Head(type_order)
             rows == group_of(texts1, typ)
             cols == group_of(texts2, typ)
             m == type_matrix(full, all1, all2, rows, cols)
         IN  match_entities(m, rows, cols, cfg.threshold, cfg.top_k)
                \o matches_by_type(Tail(type_order), texts1, texts2, full, all1, all2, cfg)

PipelineSims == {<<13, 20>>, <<9, 10>>}
PipelineTopK == {1, 2}
\* the default threshold of deduplicate_graphs
PipelineThresholds == {<<7, 10>>}

Init ==
    /\ pc = "start"
    /\ graph1 \in SourceGraphs
    /\ graph2 \in TargetGraphs
    /\ top_k \in PipelineTopK
    /\ filter_literals \in BOOLEAN
    /\ threshold = Unused
    /\ sim_matrix = <<>> /\ ids1 = <<>> /\ ids2 = <<>>
    /\ matches = <<>>
    /\ literals1 = EmptyDict /\ literals2 = EmptyDict
    /\ filter = DefaultFilter /\ acronym_boost = DefaultAcronymBoost
    /\ filtered = <<>> /\ build_matches = <<>> /\ final_result = <<>>
    /\ error = "none"
    /\ AuxUnused

\* the rdf:type object get_entity_texts takes for each subject: the first one
\* the store yields
FirstTypes(graph) ==
    {f \in [typed_subjects(graph) -> UNION {type_objects(graph, s) : s \in typed_subjects(graph)}] :
        \A s \in typed_subjects(graph) : f[s] \in type_objects(graph, s)}

\* set(grouped1) & set(grouped2)
shared_types(entity_texts1, entity_texts2) ==
    group_keys(entity_texts1) \cap group_keys(entity_texts2)

\* deduplicate_graphs(phkg_graph, skg_graph, embedding_model, threshold=..., top_k=...,
\* filter_literals=...): the candidates of every shared type, then the literal
\* adjudication with its default arguments.  order1, order2, first1, first2 and
\* type_order are the iteration orders the interpreter and the store chose, full
\* the cosine of every pair (rows in order1, columns in order2)
deduplicate_graphs(g1, g2, thr, k, order1, order2, first1, first2, type_order, full) ==
    LET entity_texts1 == get_entity_texts(order1, first1)
        entity_texts2 == get_entity_texts(order2, first2)
        all_matches == matches_by_type(type_order, entity_texts1, entity_texts2,
                                       full, order1, order2,
                                       [threshold |-> thr, top_k |-> k])
        entities1 == {all_matches[r][1] : r \in 1..Len(all_matches)}
        entities2 == {all_matches[r][2] : r \in 1..Len(all_matches)}
        lits1 == get_literals_for_entities(g1, entities1)
        lits2 == get_literals_for_entities(g2, entities2)
    IN  [all_matches |-> all_matches, literals1 |-> lits1, literals2 |-> lits2,
         filtered |-> Levenshtein_filter(all_matches, lits1, lits2,
                                         DefaultFilter, DefaultAcronymBoost)]

\* one run of deduplicate_graphs.  The encoder is external: the cosine of every
\* pair is an input drawn from sims; the iteration orders of the sets are the
\* interpreter's choice
DeduplicateGraphsWith(sims) ==
    /\ pc = "start"
    /\ \E thr \in PipelineThresholds,
          order1 \in Perms(typed_subjects(graph1)),
          order2 \in Perms(typed_subjects(graph2)),
          first1 \in FirstTypes(graph1),
          first2 \in FirstTypes(graph2) :
       \E full \in [1..Len(order1) -> [1..Len(order2) -> sims]],
          type_order \in Perms(shared_types(get_entity_texts(order1, first1),
                                            get_entity_texts(order2, first2))) :
          LET run == deduplicate_graphs(graph1, graph2, thr, top_k, order1, order2,
                                        first1, first2, type_order, full)
          IN  /\ threshold' = thr
              /\ ids1' = order1
              /\ ids2' = order2
              /\ sim_matrix' = full
              /\ matches' = run.all_matches
              /\ IF filter_literals
                 THEN /\ literals1' = run.literals1
                      /\ literals2' = run.literals2
                      /\ filtered' = run.filtered
                      /\ build_matches' = run.filtered
                 ELSE /\ UNCHANGED <<literals1, literals2, filtered>>
                      /\ build_matches' = run.all_matches
    /\ pc' = "returned"
    /\ UNCHANGED <<graph1, graph2, top_k, filter_literals, filter, acronym_boost,
                   final_result, error, aux>>

DeduplicateGraphs == DeduplicateGraphsWith(PipelineSims)

\* final_result = build_final_result(matches, phkg_graph, g2,
\*                                   graph1_name="phkg_graph", graph2_name="g2")
BuildFinalResult ==
    /\ pc = "returned"
    /\ LET r == build_final_result(build_matches, graph1, graph2, "phkg_graph", "g2")
       IN  /\ final_result' = r.final_result
           /\ error' = r.error
    /\ pc' = "built"
    /\ UNCHANGED <<graph1, graph2, sim_matrix, ids1, ids2, threshold, top_k, filter_literals,
                   matches, literals1, literals2, filter, acronym_boost, filtered,
                   build_matches, aux>>

Next == DeduplicateGraphs \/ BuildFinalResult

Spec == Init /\ [][Next]_vars

-----------------------------------------------------------------------------
(* SpecBuild: build_final_result applied to bounded lists of matches.      *)

\* the longest list of matches tried
MaxBuildLen == 2

BuildScores == {<<13, 20>>, <<7, 10>>, <<9, 10>>}
BuildAverages == {<<69999, 100000>>, <<7, 10>>, <<9, 10>>}

\* the matches handed to build_final_result: six-element matches with and without
\* a literal similarity, carrying the exact-match flag or None; and the tuples
\* the pipeline returns, of five (adjudicated) and three (raw) elements
BuildTuples ==
    {<<URIRef("e1"), URIRef("e4"), sc, avg,
       IF RatGeq(avg, <<7, 10>>) THEN "pass" ELSE "fail", flag>> :
        sc \in BuildScores, avg \in BuildAverages, flag \in {"exact", "None"}}
    \cup {<<URIRef("e1"), URIRef("e4"), sc, None, "None", flag>> :
        sc \in BuildScores, flag \in {"exact", "None"}}
    \cup {<<URIRef("e1"), URIRef("e4"), <<9, 10>>, <<9, 10>>, "pass">>,
          <<URIRef("e1"), URIRef("e4"), <<9, 10>>>>}

BuildSourceGraphs ==
    {Describe(URIRef("e1"), PERSON, d1) \cup AddressOf(URIRef("e1")) : d1 \in {DescriptionA, DescriptionN}}
BuildTargetGraphs ==
    {Describe(URIRef("e4"), PERSON, d4) : d4 \in {DescriptionB, EmptyDict}}

InitBuild ==
    /\ pc = "returned"
    /\ graph1 \in BuildSourceGraphs
    /\ graph2 \in BuildTargetGraphs
    /\ build_matches \in UNION {[1..n -> BuildTuples] : n \in 0..MaxBuildLen}
    /\ top_k = 0 /\ filter_literals = TRUE /\ threshold = Unused
    /\ sim_matrix = <<>> /\ ids1 = <<>> /\ ids2 = <<>>
    /\ matches = <<>>
    /\ literals1 = EmptyDict /\ literals2 = EmptyDict
    /\ filter = DefaultFilter /\ acronym_boost = DefaultAcronymBoost
    /\ filtered = <<>> /\ final_result = <<>>
    /\ error = "none"
    /\ AuxUnused

NextBuild == BuildFinalResult

SpecBuild == InitBuild /\ [][NextBuild]_vars

Labels == {"true_duplicate", "near-exact", "similar", "conflict"}

\* x >= n/d, for a float x
AtLeast(x, n, d) == x[1] * d >= n * x[2]

\* the label the three tiers 0.9 / 0.7 give the value x
TierLabel(x) ==
    IF AtLeast(x, 9, 10) THEN "near-exact" ELSE IF AtLeast(x, 7, 10) THEN "similar" ELSE "conflict"

\* the call returned records, one per match
Built == pc = "built" /\ error = "none"

\* C1 (as claimed): build_final_result completes on every list deduplicate_graphs
\* returns, adjudicated or raw, with one record per pair, in the order of the pairs.
C1_BuildCompletes ==
    pc = "built" =>
        /\ error = "none"
        /\ Len(final_result) = Len(build_matches)
        /\ \A i \in 1..Len(build_matches) :
              /\ final_result[i].entities[1].entity1.subject = str(build_matches[i][1])
              /\ final_result[i].entities[2].entity2.subject = str(build_matches[i][2])

\* C3 (amended): with the default fail-retention argument a candidate that shares
\* n >= 1 predicates yields exactly one adjudicated pair, unless its average is
\* below the threshold of n and n >= 3: then it yields none.
C3_DefaultDropsStrongFails ==
    (pc = "filtered" /\ filter = DefaultFilter) =>
        \A r \in 1..Len(matches) :
            LET n == SharedCount(matches[r][1], matches[r][2])
                avg == avg_sim_of(matches[r][1], matches[r][2], literals1, literals2, acronym_boost)
                thr == ThresholdTable(n)
                fails == avg[1] * thr[2] < thr[1] * avg[2]
                count == Cardinality({q \in 1..Len(filtered) :
                            filtered[q][1] = matches[r][1] /\ filtered[q][2] = matches[r][2]})
            IN  n >= 1 => count = (IF fails /\ n >= 3 THEN 0 ELSE 1)

\* under the default flag: a failing candidate with three shared predicates is
\* dropped and a failing candidate with one shared predicate is kept
C3_Witness ==
    /\ pc = "filtered"
    /\ filter = DefaultFilter
    /\ \E r \in 1..Len(matches) :
          SharedCount(matches[r][1], matches[r][2]) = 3 /\ ~Adjudicated(r)
    /\ \E q \in 1..Len(filtered) :
          filtered[q][5] = "fail" /\ SharedCount(filtered[q][1], filtered[q][2]) = 1

\* C7: a record with an avg_literal_similarity and no exact-match flag is labelled
\* near-exact from 0.9 on (0.9 included), similar from 0.7 on (0.7 included) and
\* conflict below 0.7, whatever the embedding score.
C7_LiteralTiers ==
    Built =>
        \A i \in 1..Len(build_matches) :
            LET m == build_matches[i]
                rec == final_result[i]
            IN  (m[4] # None /\ m[6] # "exact") =>
                    /\ "avg_literal_similarity" \in DOMAIN rec
                    /\ rec.duplication_type = TierLabel(m[4])

\* records of averages 0.9, 0.7 and 0.69999 whose embedding score lies in another tier
C7_Witness ==
    /\ Built
    /\ \E i \in 1..Len(build_matches) :
          /\ build_matches[i][4] = <<9, 10>> /\ build_matches[i][6] # "exact"
          /\ build_matches[i][3] = <<13, 20>>
          /\ final_result[i].duplication_type = "near-exact"
    /\ \E i \in 1..Len(build_matches) :
          /\ build_matches[i][4] \in {<<7, 10>>, <<69999, 100000>>} /\ build_matches[i][6] # "exact"
          /\ build_matches[i][3] = <<9, 10>>
          /\ final_result[i].duplication_type \in {"similar", "conflict"}

\* C8 (as claimed): a pair without a literal similarity gets a record labelled by
\* the three tiers of its embedding score, wherever it stands in the list, first
\* included.
C8_EmbeddingTiers ==
    (pc = "built" /\ \A i \in 1..Len(build_matches) : Len(build_matches[i]) = 6) =>
        \A i \in 1..Len(build_matches) :
            build_matches[i][4] = None =>
                /\ error = "none"
                /\ Len(final_result) = Len(build_matches)
                /\ final_result[i].duplication_type = TierLabel(build_matches[i][3])

\* C9: every record carries a duplication_type of the four labels, and a record of
\* the literal-adjudicated path is true_duplicate exactly when its pair carries
\* the exact-match flag, whatever its avg_literal_similarity.
C9_LabelVocabulary ==
    Built =>
        \A i \in 1..Len(build_matches) :
            LET m == build_matches[i]
                rec == final_result[i]
            IN  /\ "duplication_type" \in DOMAIN rec
                /\ rec.duplication_type \in Labels
                /\ m[4] # None => (rec.duplication_type = "true_duplicate" <=> m[6] = "exact")

\* a flagged pair of low average labelled true_duplicate next to an unflagged
\* pair of high average that is not
C9_Witness ==
    /\ Built
    /\ \E i \in 1..Len(build_matches) :
          /\ build_matches[i][4] = <<69999, 100000>> /\ build_matches[i][6] = "exact"
          /\ final_result[i].duplication_type = "true_duplicate"
    /\ \E i \in 1..Len(build_matches) :
          /\ build_matches[i][4] = <<9, 10>> /\ build_matches[i][6] # "exact"
          /\ build_matches[i][5] = "pass"
          /\ final_result[i].duplication_type = "near-exact"

\* C10 (as claimed): no pair deduplicate_graphs returns joins an entity with
\* itself: entity1.subject differs from entity2.subject.
C10_NoSelfMatch ==
    pc \in {"returned", "built"} =>
        \A i \in 1..Len(build_matches) : str(build_matches[i][1]) # str(build_matches[i][2])

-----------------------------------------------------------------------------
(* The pipeline, type by type.                                             *)

\* the type labels the graph gives entity e
TypeLabels(graph, e) == {get_prefixed_predicate(str(t)) : t \in type_objects(graph, e)}

\* the cosine the run was given for source entity s and target entity t
CosineOf(s, t) == sim_matrix[IndexOf(ids1, s)][IndexOf(ids2, t)]

Returns(list, s, t) == \E r \in 1..Len(list) : list[r][1] = s /\ list[r][2] = t

\* C11: every pair deduplicate_graphs returns joins a source entity and a target
\* entity of the same type label, and the selection runs once per shared type: a
\* target entity stands in at most top_k candidates.
C11_SameTypePairs ==
    pc \in {"returned", "built"} =>
        /\ \A r \in 1..Len(matches) :
              TypeLabels(graph1, matches[r][1]) \cap TypeLabels(graph2, matches[r][2]) # {}
        /\ \A r \in 1..Len(build_matches) :
              TypeLabels(graph1, build_matches[r][1]) \cap TypeLabels(graph2, build_matches[r][2]) # {}
        /\ \A t \in {matches[r][2] : r \in 1..Len(matches)} :
              Cardinality({r \in 1..Len(matches) : matches[r][2] = t}) <= top_k

\* two shared types that both give a candidate, and a pair across the two types
\* whose cosine reaches the threshold and is not returned
C11_Witness ==
    /\ pc = "returned"
    /\ \E r1, r2 \in 1..Len(build_matches) :
          TypeLabels(graph1, build_matches[r1][1]) # TypeLabels(graph1, build_matches[r2][1])
    /\ \E i \in 1..Len(ids1), j \in 1..Len(ids2) :
          /\ TypeLabels(graph1, ids1[i]) \cap TypeLabels(graph2, ids2[j]) = {}
          /\ RatGeq(sim_matrix[i][j], threshold)
          /\ ~Returns(matches, ids1[i], ids2[j])

-----------------------------------------------------------------------------
(* SpecTwice: deduplicate_graphs run twice on the same graphs, vectors and *)
(* configuration.                                                          *)

\* the second run: the interpreter chooses its iteration orders anew; the cosine of
\* every pair of entities is the one the first run was given
DeduplicateGraphsAgain ==
    /\ pc = "returned"
    /\ \E order1 \in Perms(typed_subjects(graph1)),
          order2 \in Perms(typed_subjects(graph2)),
          first1 \in FirstTypes(graph1),
          first2 \in FirstTypes(graph2) :
       \E type_order \in Perms(shared_types(get_entity_texts(order1, first1),
                                            get_entity_texts(order2, first2))) :
          LET full == [i \in 1..Len(order1) |-> [j \in 1..Len(order2) |->
                          sim_matrix[IndexOf(ids1, order1[i])][IndexOf(ids2, order2[j])]]]
              run == deduplicate_graphs(graph1, graph2, threshold, top_k, order1, order2,
                                        first1, first2, type_order, full)
          IN  second_run' = IF filter_literals THEN run.filtered ELSE run.all_matches
    /\ pc' = "repeated"
    /\ UNCHANGED <<graph1, graph2, sim_matrix, ids1, ids2, threshold, top_k, filter_literals,
                   matches, literals1, literals2, filter, acronym_boost, filtered,
                   build_matches, final_result, error, call, ret>>

NextTwice == DeduplicateGraphs \/ DeduplicateGraphsAgain

SpecTwice == Init /\ [][NextTwice]_vars

\* C12 (as claimed): two runs of deduplicate_graphs on identical graphs, vectors and
\* configuration return the same pairs in the same order, whatever order the
\* interpreter iterates its sets in.
C12_SameOrderTwice ==
    pc = "repeated" => second_run = build_matches

-----------------------------------------------------------------------------
(* Fusion of the text vector and the graph vector (embedding_utils).  A    *)
(* numpy value is a rational or nan; a 1-d array is a sequence of values.  *)

NaN == <<0, 0>>

RatMul(a, b) == Rat(a[1] * b[1], a[2] * b[2])

\* float multiplication and addition: nan propagates
np_mul(x, y) == IF x = NaN \/ y = NaN THEN NaN ELSE RatMul(x, y)
np_add(x, y) == IF x = NaN \/ y = NaN THEN NaN ELSE RatAdd(x, y)

\* np.zeros(n)
np_zeros(n) == [i \in 1..n |-> <<0, 1>>]

\* scalar * array
np_scale(a, v) == [i \in 1..Len(v) |-> np_mul(a, v[i])]

\* array + array with numpy's broadcasting of 1-d shapes: equal lengths add
\* elementwise, a length-1 array is stretched to the other's length, anything
\* else raises ValueError (operands could not be broadcast together)
np_add_arrays(u, v) ==
    IF Len(u) = Len(v)
    THEN [value |-> [i \in 1..Len(u) |-> np_add(u[i], v[i])], error |-> "none"]
    ELSE IF Len(u) = 1
    THEN [value |-> [i \in 1..Len(v) |-> np_add(u[1], v[i])], error |-> "none"]
    ELSE IF Len(v) = 1
    THEN [value |-> [i \in 1..Len(u) |-> np_add(u[i], v[1])], error |-> "none"]
    ELSE [value |-> None, error |-> "ValueError"]

\* fusion with the weights exchanged: alpha on the graph vector
get_hybrid_vector_swapped(entity, text_vector, graph_embeddings, alpha, text_dim) ==
    LET graph_vec == dict_get(graph_embeddings, str(entity), np_zeros(text_dim))
        text_vec == text_vector
    IN  np_add_arrays(np_scale(Rat(alpha[2] - alpha[1], alpha[2]), text_vec),
                      np_scale(alpha, graph_vec))

\* get_hybrid_vector(entity, text_vector, graph_embeddings, alpha, text_dim):
\* alpha * text_vec + (1 - alpha) * graph_vec
get_hybrid_vector(entity, text_vector, graph_embeddings, alpha, text_dim) ==
    LET graph_vec == dict_get(graph_embeddings, str(entity), np_zeros(text_dim))
        text_vec == text_vector
    IN  np_add_arrays(np_scale(alpha, text_vec),
                      np_scale(Rat(alpha[2] - alpha[1], alpha[2]), graph_vec))

\* get_hybrid_vectors(entities, text_vectors, graph_embeddings, alpha, text_dim):
\* np.array of the fused vectors, one row per entity.  An exception of a fusion
\* ends the call; rows of unequal length make no matrix (numpy raises ValueError;
\* older versions build an array of objects that torch.tensor rejects)
get_hybrid_vectors(entities, text_vectors, graph_embeddings, alpha, text_dim) ==
    LET fused == [i \in 1..Len(entities) |->
                    get_hybrid_vector(entities[i], text_vectors[i], graph_embeddings,
                                      alpha, text_dim)]
    IN  IF \E i \in 1..Len(entities) : fused[i].error # "none"
        THEN [value |-> None, error |-> "ValueError"]
        ELSE IF \E i, j \in 1..Len(entities) : Len(fused[i].value) # Len(fused[j].value)
        THEN [value |-> None, error |-> "ValueError"]
        ELSE [value |-> [i \in 1..Len(entities) |-> fused[i].value], error |-> "none"]

\* the hybrid branch of deduplicate_graphs for one type, up to the call of
\* cosine_similarity: the two fused matrices, or the exception.  sklearn's
\* cosine_similarity raises ValueError on a non-finite value and on matrices of
\* different widths; F.normalize changes neither the width of a matrix nor
\* whether it holds a nan
hybrid_embeddings(entity_ids1, emb1, entity_ids2, emb2, graph_embeddings, alpha, text_dim) ==
    LET hybrid_vecs1 == get_hybrid_vectors(entity_ids1, emb1, graph_embeddings, alpha, text_dim)
        hybrid_vecs2 == get_hybrid_vectors(entity_ids2, emb2, graph_embeddings, alpha, text_dim)
        Failed == [emb1 |-> None, emb2 |-> None, error |-> "ValueError"]
    IN  IF hybrid_vecs1.error # "none" \/ hybrid_vecs2.error # "none" THEN Failed
        ELSE IF \E i \in 1..Len(entity_ids1) : \E c \in 1..Len(hybrid_vecs1.value[i]) :
                    hybrid_vecs1.value[i][c] = NaN
        THEN Failed
        ELSE IF \E i \in 1..Len(entity_ids2) : \E c \in 1..Len(hybrid_vecs2.value[i]) :
                    hybrid_vecs2.value[i][c] = NaN
        THEN Failed
        ELSE IF Len(hybrid_vecs1.value[1]) # Len(hybrid_vecs2.value[1]) THEN Failed
        ELSE [emb1 |-> hybrid_vecs1.value, emb2 |-> hybrid_vecs2.value, error |-> "none"]

-----------------------------------------------------------------------------
(* Adaptive fusion of three views (combine_embeddings of MultiKE_node2Vec  *)
(* and MultiKE._TransE).  Views are vectors of integers whose Euclidean    *)
(* norm is an integer, so that every quantity is an exact rational.        *)

RECURSIVE dot_from(_, _, _)
dot_from(u, v, i) == IF i > Len(u) THEN 0 ELSE u[i] * v[i] + dot_from(u, v, i + 1)

\* the inner product of two integer vectors
dot(u, v) == dot_from(u, v, 1)

\* the Euclidean norm of an integer vector (an integer for the views tried)
norm(v) == CHOOSE n \in 0..dot(v, v) : n * n = dot(v, v)

\* cosine_similarity(v, avg_emb) multiplied by the norm of avg_emb, avg_emb being
\* total / 3: the three cosines of a call share that positive factor, so their
\* signs, the sign of their sum and their ratios are those of these values.
\* sklearn gives 0 for a vector of norm 0
scaled_cosine(v, total) ==
    IF norm(v) = 0 \/ dot(total, total) = 0 THEN <<0, 1>>
    ELSE Rat(dot(v, total), 3 * norm(v))

RatSum3(w) == RatAdd(w[1], RatAdd(w[2], w[3]))

\* x / y for y # 0
RatDiv(x, y) ==
    IF y[1] < 0 THEN Rat(-(x[1] * y[2]), x[2] * (-y[1])) ELSE Rat(x[1] * y[2], x[2] * y[1])

\* the fallback without the division: np.ones_like(weights)
normalize_weights_ones(weights) ==
    IF RatLt(<<0, 1>>, RatSum3(weights))
    THEN [i \in 1..3 |-> RatDiv(weights[i], RatSum3(weights))]
    ELSE [i \in 1..3 |-> <<1, 1>>]

\* the fallback taken only when no similarity is positive
normalize_weights_any_positive(weights) ==
    IF \E i \in 1..3 : RatLt(<<0, 1>>, weights[i])
    THEN [i \in 1..3 |-> IF RatSum3(weights) = <<0, 1>> THEN <<1, 0>>
                         ELSE RatDiv(weights[i], RatSum3(weights))]
    ELSE [i \in 1..3 |-> <<1, 3>>]

\* if weights.sum() > 0: weights /= weights.sum()
\* else: weights = np.ones_like(weights) / len(weights)
normalize_weights(weights) ==
    IF RatLt(<<0, 1>>, RatSum3(weights))
    THEN [i \in 1..3 |-> RatDiv(weights[i], RatSum3(weights))]
    ELSE [i \in 1..3 |-> <<1, 3>>]

\* combine_embeddings(name_emb, rel_emb, attr_emb): the similarities (scaled),
\* the weights and the combined vector
combine_embeddings(name_emb, rel_emb, attr_emb) ==
    LET views == <<name_emb, rel_emb, attr_emb>>
        total == [i \in 1..Len(name_emb) |-> name_emb[i] + rel_emb[i] + attr_emb[i]]
        sims == [k \in 1..3 |-> scaled_cosine(views[k], total)]
        weights == normalize_weights(sims)
        combined_emb == [i \in 1..Len(name_emb) |->
                            RatSum3([k \in 1..3 |-> RatMul(weights[k], <<views[k][i], 1>>)])]
    IN  [sims |-> sims, weights |-> weights, combined_emb |-> combined_emb]

-----------------------------------------------------------------------------
(* SpecCalls: the pure functions of similarity_utils and embedding_utils,  *)
(* each called once on an argument of a bounded set.                       *)

\* the longest text tried, character by character
MaxTextLen == 3
\* the largest number of shared literals tried
MaxLiterals == 12

\* a letter, a capital, the space and two punctuation marks
TextAlphabet == {"a", "J", " ", "@", "-"}

Texts == UNION {[1..n -> TextAlphabet] : n \in 0..MaxTextLen}

JAtXDotCom == <<"j", "@", "x", ".", "c", "o", "m">>
JeanPaul == <<"J", "e", "a", "n", "-", "P", "a", "u", "l">>

\* the dimension D of the text vectors (text_dim)
VectorDim == 2

\* vector components: 0, 1, -1/2 and nan
Components == {<<0, 1>>, <<1, 1>>, <<-1, 2>>, NaN}

\* text vectors: the rows of the encoder's output, of dimension D
TextVectors == [1..VectorDim -> Components]

\* graph vectors as a graph-embedding method may give them: of any dimension
\* from 1 to D + 1
GraphVectors == UNION {[1..n -> Components] : n \in 1..(VectorDim + 1)}

\* graph_embeddings: no entry for e1, or one
GraphEmbeddings ==
    {EmptyDict} \cup {("e1" :> v) : v \in GraphVectors}

Alphas == {<<0, 1>>, <<1, 4>>, <<1, 2>>, <<1, 1>>}

HybridCalls ==
    {[fn |-> "get_hybrid_vector",
      arg |-> [entity |-> URIRef("e1"), text_vector |-> t, graph_embeddings |-> g,
               alpha |-> a, text_dim |-> VectorDim]] :
        t \in TextVectors, g \in GraphEmbeddings, a \in Alphas}

\* view vectors of two components with an integer norm
ViewVectors ==
    {<<0, 0>>, <<1, 0>>, <<-1, 0>>, <<0, 1>>, <<3, 4>>, <<-3, -4>>, <<-4, 3>>, <<10, 0>>}

CombineCalls ==
    {[fn |-> "combine_embeddings", arg |-> <<n, r, a>>] :
        n \in ViewVectors, r \in ViewVectors, a \in ViewVectors}

\* the text vector of every entity of the hybrid branch: 1 in every component
OnesVector == [i \in 1..VectorDim |-> <<1, 1>>]

\* the hybrid branch on the sources e1, e2 and the target e4; e2 and e4 have no
\* graph vector, e1 has none or any of GraphVectors
HybridStageCalls ==
    {[fn |-> "hybrid_embeddings",
      arg |-> [ids1 |-> <<URIRef("e1"), URIRef("e2")>>, emb1 |-> <<t, OnesVector>>,
               ids2 |-> <<URIRef("e4")>>, emb2 |-> <<OnesVector>>,
               graph_embeddings |-> g, alpha |-> a, text_dim |-> VectorDim]] :
        t \in TextVectors, g \in GraphEmbeddings, a \in Alphas}

Calls ==
    {[fn |-> "get_acronym", arg |-> s] : s \in Texts \cup {JAtXDotCom, JeanPaul}}
        \cup HybridStageCalls
        \cup {[fn |-> "literal_based_threshold", arg |-> n] : n \in 0..MaxLiterals}
        \cup HybridCalls
        \cup CombineCalls

InitCalls ==
    /\ pc = "start"
    /\ call \in Calls
    /\ ret = Unused
    /\ second_run = Unused
    /\ graph1 = {} /\ graph2 = {}
    /\ sim_matrix = <<>> /\ ids1 = <<>> /\ ids2 = <<>>
    /\ threshold = Unused /\ top_k = Unused /\ filter_literals = Unused
    /\ matches = <<>>
    /\ literals1 = EmptyDict /\ literals2 = EmptyDict
    /\ filter = Unused /\ acronym_boost = Unused
    /\ filtered = <<>> /\ build_matches = <<>> /\ final_result = <<>>
    /\ error = "none"

CallGetAcronym ==
    /\ pc = "start"
    /\ call.fn = "get_acronym"
    /\ ret' = get_acronym(call.arg)
    /\ pc' = "called"
    /\ UNCHANGED <<graph1, graph2, sim_matrix, ids1, ids2, threshold, top_k, filter_literals,
                   matches, literals1, literals2, filter, acronym_boost, filtered,
                   build_matches, final_result, error, second_run, call>>

CallLiteralBasedThreshold ==
    /\ pc = "start"
    /\ call.fn = "literal_based_threshold"
    /\ ret' = literal_based_threshold(call.arg)
    /\ pc' = "called"
    /\ UNCHANGED <<graph1, graph2, sim_matrix, ids1, ids2, threshold, top_k, filter_literals,
                   matches, literals1, literals2, filter, acronym_boost, filtered,
                   build_matches, final_result, error, second_run, call>>

CallGetHybridVector ==
    /\ pc = "start"
    /\ call.fn = "get_hybrid_vector"
    /\ ret' = get_hybrid_vector(call.arg.entity, call.arg.text_vector,
                                call.arg.graph_embeddings, call.arg.alpha, call.arg.text_dim)
    /\ pc' = "called"
    /\ UNCHANGED <<graph1, graph2, sim_matrix, ids1, ids2, threshold, top_k, filter_literals,
                   matches, literals1, literals2, filter, acronym_boost, filtered,
                   build_matches, final_result, error, second_run, call>>

CallCombineEmbeddings ==
    /\ pc = "start"
    /\ call.fn = "combine_embeddings"
    /\ ret' = combine_embeddings(call.arg[1], call.arg[2], call.arg[3])
    /\ pc' = "called"
    /\ UNCHANGED <<graph1, graph2, sim_matrix, ids1, ids2, threshold, top_k, filter_literals,
                   matches, literals1, literals2, filter, acronym_boost, filtered,
                   build_matches, final_result, error, second_run, call>>

CallHybridEmbeddings ==
    /\ pc = "start"
    /\ call.fn = "hybrid_embeddings"
    /\ ret' = hybrid_embeddings(call.arg.ids1, call.arg.emb1, call.arg.ids2, call.arg.emb2,
                                call.arg.graph_embeddings, call.arg.alpha, call.arg.text_dim)
    /\ pc' = "called"
    /\ UNCHANGED <<graph1, graph2, sim_matrix, ids1, ids2, threshold, top_k, filter_literals,
                   matches, literals1, literals2, filter, acronym_boost, filtered,
                   build_matches, final_result, error, second_run, call>>

NextCalls ==
    \/ CallGetAcronym
    \/ CallLiteralBasedThreshold
    \/ CallGetHybridVector
    \/ CallCombineEmbeddings
    \/ CallHybridEmbeddings

SpecCalls == InitCalls /\ [][NextCalls]_vars

Called(fn) == pc = "called" /\ call.fn = fn

\* the positions of s where a run of characters satisfying In begins
RunStarts(s, In(_)) == {i \in 1..Len(s) : In(s[i]) /\ (i = 1 \/ ~In(s[i - 1]))}

\* the characters of s at the positions I, in the order of s
CharsAt(s, I) ==
    [k \in 1..Cardinality(I) |->
        s[CHOOSE i \in I : Cardinality({j \in I : j <= i}) = k]]

\* C14 (as claimed): the acronym is the first character of every
\* whitespace-delimited word, uppercased, so a word with punctuation and no
\* whitespace gives exactly one character.
C14_OnePerSpacedWord ==
    Called("get_acronym") =>
        /\ ret = upper(CharsAt(call.arg, RunStarts(call.arg, IsNotSpace)))
        /\ (Len(call.arg) > 0 /\ \A i \in 1..Len(call.arg) : call.arg[i] # " ") => Len(ret) = 1

\* C14 (amended): the acronym is the first character, uppercased, of every maximal
\* run of word characters (letters, digits, underscore); punctuation ends a run
\* as the space does, so "j@x.com" gives "JXC" and "Jean-Paul" gives "JP".
C14_OnePerWordRun ==
    Called("get_acronym") =>
        /\ ret = upper(CharsAt(call.arg, RunStarts(call.arg, IsWordChar)))
        /\ call.arg = JAtXDotCom => ret = <<"J", "X", "C">>
        /\ call.arg = JeanPaul => ret = <<"J", "P">>

\* the e-mail address of the claim, giving three characters
C14_Witness ==
    /\ Called("get_acronym")
    /\ call.arg = JAtXDotCom
    /\ Len(ret) = 3

\* C15: the threshold is 0.40, 0.55, 0.70, 0.80, 0.85 for 1 to 5 shared
\* literals and 0.85 for every other count; it never decreases from 1 to 5 and
\* is constant from 5 on.
C15_ThresholdTable ==
    Called("literal_based_threshold") =>
        LET n == call.arg
        IN  /\ n = 1 => ret = <<2, 5>>
            /\ n = 2 => ret = <<11, 20>>
            /\ n = 3 => ret = <<7, 10>>
            /\ n = 4 => ret = <<4, 5>>
            /\ n = 5 => ret = <<17, 20>>
            /\ n \notin 1..5 => ret = <<17, 20>>
            /\ \A m \in 1..5 : (m <= n /\ n <= 5) => RatGeq(ret, literal_based_threshold(m))
            /\ \A m \in 5..(MaxLiterals + 1) : n >= 5 => ret = literal_based_threshold(m)

\* a count beyond the table, given the table's last value
C15_Witness ==
    /\ Called("literal_based_threshold")
    /\ call.arg = 6
    /\ ret = <<17, 20>>

-----------------------------------------------------------------------------
(* The acronym boost, predicate by predicate.                              *)

\* the sum of f over the set S
RECURSIVE RatSumOver(_, _)
RatSumOver(S, f) ==
    IF S = {} THEN <<0, 1>>
    ELSE LET x == CHOOSE y \in S : TRUE
         IN  RatAdd(f[x], RatSumOver(S \ {x}, f))

\* the initials of the words that spaces delimit / of the runs of word characters
SpacedInitials(s) == upper(CharsAt(s, RunStarts(s, IsNotSpace)))
WordRunInitials(s) == upper(CharsAt(s, RunStarts(s, IsWordChar)))

\* one value, spaces removed and case ignored, is the initialism of the other
InitialismPair(v1, v2, Initials(_)) ==
    \/ upper(replace_spaces(v2)) = Initials(v1)
    \/ upper(replace_spaces(v1)) = Initials(v2)

PlainRatio(v1, v2) == normalized_levenshtein(lower(v1), lower(v2))

\* the literal maps of the two entities of a returned record
SourceMap(rec) == literals1[str(rec[1])]
TargetMap(rec) == literals2[str(rec[2])]
SharedPreds(rec) == DOMAIN SourceMap(rec) \cap DOMAIN TargetMap(rec)

\* the average lies between the mean of the lower bounds lo and of the upper
\* bounds hi of the shared predicates
AverageWithin(rec, lo, hi) ==
    LET n == Cardinality(SharedPreds(rec))
    IN  /\ RatGeq(rec[4], RatDivInt(RatSumOver(SharedPreds(rec), lo), n))
        /\ RatGeq(RatDivInt(RatSumOver(SharedPreds(rec), hi), n), rec[4])

\* C13 (as claimed): a shared predicate where one value is the initialism of the
\* other (first characters of the whitespace-delimited words) scores at least
\* acronym_boost, whichever side holds it; every other predicate scores the
\* plain ratio.
C13_BoostOfSpacedInitials ==
    pc = "filtered" =>
        \A r \in 1..Len(filtered) :
            LET rec == filtered[r]
                lo == [p \in SharedPreds(rec) |->
                        IF InitialismPair(SourceMap(rec)[p], TargetMap(rec)[p], SpacedInitials)
                        THEN acronym_boost
                        ELSE PlainRatio(SourceMap(rec)[p], TargetMap(rec)[p])]
                hi == [p \in SharedPreds(rec) |->
                        IF InitialismPair(SourceMap(rec)[p], TargetMap(rec)[p], SpacedInitials)
                        THEN <<1, 1>>
                        ELSE PlainRatio(SourceMap(rec)[p], TargetMap(rec)[p])]
            IN  AverageWithin(rec, lo, hi)

\* C13 (amended): a shared predicate where one value, spaces removed and case
\* ignored, equals the acronym of the other (first characters of its runs of word
\* characters) scores max(ratio, acronym_boost), whichever side holds it; every
\* other predicate scores the plain ratio.
C13_BoostOfWordRunInitials ==
    pc = "filtered" =>
        \A r \in 1..Len(filtered) :
            LET rec == filtered[r]
                sim == [p \in SharedPreds(rec) |->
                        IF InitialismPair(SourceMap(rec)[p], TargetMap(rec)[p], WordRunInitials)
                        THEN RatMax(PlainRatio(SourceMap(rec)[p], TargetMap(rec)[p]), acronym_boost)
                        ELSE PlainRatio(SourceMap(rec)[p], TargetMap(rec)[p])]
            IN  AverageWithin(rec, sim, sim)

\* a record of two shared predicates, the source holding the initialism in one and
\* the target in the other, both raised from a ratio below the boost
C13_Witness ==
    /\ pc = "filtered"
    /\ \E r \in 1..Len(filtered) :
          LET rec == filtered[r]
          IN  /\ SharedPreds(rec) = {NAME, EMAIL}
              /\ upper(SourceMap(rec)[NAME]) = SpacedInitials(TargetMap(rec)[NAME])
              /\ upper(TargetMap(rec)[EMAIL]) = SpacedInitials(SourceMap(rec)[EMAIL])
              /\ Len(TargetMap(rec)[NAME]) > Len(SourceMap(rec)[NAME])
              /\ RatLt(PlainRatio(SourceMap(rec)[NAME], TargetMap(rec)[NAME]), acronym_boost)
              /\ rec[4] = acronym_boost

-----------------------------------------------------------------------------
(* SpecScenario: the pipeline on one source and one target entity of the   *)
(* same type, two shared predicates.                                       *)

JaneDoe ==
    ("http://schema.org/name" :> <<"J", "a", "n", "e", " ", "D", "o", "e">>) @@
    ("http://schema.org/email" :> JAtXDotCom)
JDotDoe ==
    ("http://schema.org/name" :> <<"J", ".", " ", "D", "o", "e">>) @@
    ("http://schema.org/email" :> JAtXDotCom)

\* cosines 0.60, 0.61, ... 0.99
ScenarioSims == {Rat(c, 100) : c \in 60..99}

InitScenario ==
    /\ pc = "start"
    /\ graph1 = Describe(URIRef("s1"), PERSON, JaneDoe)
    /\ graph2 = Describe(URIRef("t1"), PERSON, JDotDoe)
    /\ top_k \in PipelineTopK
    /\ filter_literals \in BOOLEAN
    /\ threshold = Unused
    /\ sim_matrix = <<>> /\ ids1 = <<>> /\ ids2 = <<>>
    /\ matches = <<>>
    /\ literals1 = EmptyDict /\ literals2 = EmptyDict
    /\ filter = DefaultFilter /\ acronym_boost = DefaultAcronymBoost
    /\ filtered = <<>> /\ build_matches = <<>> /\ final_result = <<>>
    /\ error = "none"
    /\ AuxUnused

DeduplicateScenario == DeduplicateGraphsWith(ScenarioSims)

NextScenario == DeduplicateScenario \/ BuildFinalResult

SpecScenario == InitScenario /\ [][NextScenario]_vars

\* the configuration of the scenario: cosine 0.81, threshold 0.7, top_k 1, the
\* literal adjudication on
ScenarioRun ==
    /\ pc \in {"returned", "built"}
    /\ top_k = 1 /\ filter_literals
    /\ threshold = <<7, 10>>
    /\ sim_matrix = << << <<81, 100>> >> >>

\* the candidate is selected and passes on its two shared predicates
ScenarioPasses ==
    /\ matches = << <<URIRef("s1"), URIRef("t1"), <<81, 100>> >> >>
    /\ Len(build_matches) = 1
    /\ Cardinality(DOMAIN literals1["s1"] \cap DOMAIN literals2["t1"]) = 2
    /\ build_matches[1][5] = "pass"
    /\ RatGeq(build_matches[1][4], <<11, 20>>)

-----------------------------------------------------------------------------
(* The predicate listings of a record.                                     *)

\* the literal map of entity e, read off the triples of the graph
OwnLiterals(graph, e) ==
    {<<get_prefixed_predicate(str(t[2])), str(t[3])>> :
        t \in {u \in graph : u[1] = e /\ u[3].kind = "Literal"
                                /\ get_prefixed_predicate(str(u[2])) \notin WEAK_PREDICATES}}

\* the place of a label in ascending string order
LabelRank(label) == CHOOSE k \in 1..Len(SortedLabels) : SortedLabels[k] = label

\* the listing holds the entity's own predicates, each once, in ascending order
ListingOf(listing, graph, e) ==
    /\ \A k \in 1..(Len(listing) - 1) :
          LabelRank(listing[k].predicate) < LabelRank(listing[k + 1].predicate)
    /\ {<<listing[k].predicate, listing[k].object>> : k \in 1..Len(listing)} = OwnLiterals(graph, e)
    /\ \A k \in 1..Len(listing) : listing[k].object # <<"N", "/", "A">>

\* C17: each predicate listing of a record is sorted ascending and holds every
\* predicate of the entity's own literal map exactly once, those the other entity
\* lacks included, and none the entity lacks (no "N/A" entry).
C17_OwnPredicatesSorted ==
    Built =>
        \A i \in 1..Len(final_result) :
            LET m == build_matches[i]
                rec == final_result[i]
            IN  /\ ListingOf(rec.entities[1].entity1.predicates, graph1, m[1])
                /\ ListingOf(rec.entities[2].entity2.predicates, graph2, m[2])

\* a record whose entities each have a predicate the other lacks, one listing
\* of three entries
C17_Witness ==
    /\ Built
    /\ \E i \in 1..Len(final_result) :
          LET own1 == {x[1] : x \in OwnLiterals(graph1, build_matches[i][1])}
              own2 == {x[1] : x \in OwnLiterals(graph2, build_matches[i][2])}
          IN  /\ own1 \ own2 # {}
              /\ own2 \ own1 # {}
              /\ Len(final_result[i].entities[2].entity2.predicates) = 3

-----------------------------------------------------------------------------
(* Which candidates the two adjudicators return.                           *)

\* the shared predicates of the candidate at position r of `matches`
CandidatePreds(r) ==
    {p \in {NAME, EMAIL, PHONE} :
        /\ str(matches[r][1]) \in DOMAIN literals1 /\ p \in DOMAIN literals1[str(matches[r][1])]
        /\ str(matches[r][2]) \in DOMAIN literals2 /\ p \in DOMAIN literals2[str(matches[r][2])]}

\* its average over the shared predicates (one at least)
CandidateAverage(r) ==
    LET m1 == literals1[str(matches[r][1])]
        m2 == literals2[str(matches[r][2])]
        sim == [p \in CandidatePreds(r) |->
                   IF InitialismPair(m1[p], m2[p], WordRunInitials)
                   THEN RatMax(PlainRatio(m1[p], m2[p]), acronym_boost)
                   ELSE PlainRatio(m1[p], m2[p])]
    IN  RatDivInt(RatSumOver(CandidatePreds(r), sim), Cardinality(CandidatePreds(r)))

CandidateFails(r) ==
    /\ CandidatePreds(r) # {}
    /\ RatLt(CandidateAverage(r), ThresholdTable(Cardinality(CandidatePreds(r))))

CandidatePasses(r) ==
    /\ CandidatePreds(r) # {}
    /\ RatGeq(CandidateAverage(r), ThresholdTable(Cardinality(CandidatePreds(r))))

ReturnedAs(r, status) ==
    \E q \in 1..Len(filtered) :
        filtered[q] = <<matches[r][1], matches[r][2], matches[r][3], CandidateAverage(r), status>>

\* the fail-dropping variants have returned: Levenshtein_filter with filter=True,
\* or Levenshtein_filter_flag
FailDropping == (pc = "filtered" /\ filter) \/ pc = "flagged"

\* C18: the fail-dropping variants return no fail of three or more shared
\* predicates, return every failing candidate of one or two shared predicates as
\* fail and every passing candidate as pass; with filter=False every candidate of
\* at least one shared predicate is returned.
C18_FailDroppingRule ==
    /\ FailDropping =>
          /\ \A q \in 1..Len(filtered) :
                ~(filtered[q][5] = "fail" /\ SharedCount(filtered[q][1], filtered[q][2]) >= 3)
          /\ \A r \in 1..Len(matches) :
                /\ (CandidateFails(r) /\ Cardinality(CandidatePreds(r)) \in {1, 2})
                        => ReturnedAs(r, "fail")
                /\ CandidatePasses(r) => ReturnedAs(r, "pass")
    /\ (pc = "filtered" /\ ~filter) =>
          \A r \in 1..Len(matches) :
              CandidatePreds(r) # {} =>
                  (ReturnedAs(r, "pass") \/ ReturnedAs(r, "fail"))

\* Levenshtein_filter_flag drops a failing candidate of three shared predicates
\* and returns a failing candidate of one
C18_Witness ==
    /\ pc = "flagged"
    /\ \E r \in 1..Len(matches) :
          /\ CandidateFails(r) /\ Cardinality(CandidatePreds(r)) = 3
          /\ ~Adjudicated(r)
    /\ \E r \in 1..Len(matches) :
          /\ CandidateFails(r) /\ Cardinality(CandidatePreds(r)) = 1
          /\ ReturnedAs(r, "fail")

\* the literal maps of the sources with the map of entity e replaced by m
WithSourceMap(e, m) == (str(e) :> m) @@ literals1

\* C19 (as claimed): a candidate dropped because its literal maps share no
\* predicate can be told, from what the adjudicator returns (the pairs, hence
\* the counts the pipeline prints), from the same candidate failing on three or
\* more shared predicates: two inputs that differ in that candidate only do not
\* give the same result.
C19_DropsDistinguishable ==
    (pc = "filtered" /\ filter = DefaultFilter) =>
        \A r \in 1..Len(matches) : \A m \in LiteralMaps :
            LET ent1 == matches[r][1]
                ent2 == matches[r][2]
                other == WithSourceMap(ent1, m)
                shared == common_preds_of(ent1, ent2, other, literals2)
            IN  ( /\ CandidatePreds(r) = {}
                  /\ \A q \in 1..Len(matches) : q # r => matches[q][1] # ent1
                  /\ Cardinality(shared) >= 3
                  /\ RatLt(avg_sim_of(ent1, ent2, other, literals2, acronym_boost),
                           literal_based_threshold(Cardinality(shared))) )
                => Levenshtein_filter(matches, other, literals2, filter, acronym_boost) # filtered

-----------------------------------------------------------------------------
(* Types that only one of the graphs holds.                                *)

\* the type labels of the typed entities of a graph
LabelsOf(graph) == UNION {TypeLabels(graph, e) : e \in typed_subjects(graph)}

\* the typed entities of `graph` none of whose type labels occurs in `other`
LoneTypeEntities(graph, other) ==
    {e \in typed_subjects(graph) : TypeLabels(graph, e) \cap LabelsOf(other) = {}}

\* C20: an entity whose type label occurs in one graph only stands in no
\* candidate, whatever its cosines, and the run returns without an error.
C20_LoneTypeNoCandidates ==
    pc = "returned" =>
        /\ error = "none"
        /\ \A r \in 1..Len(matches) :
              /\ matches[r][1] \notin LoneTypeEntities(graph1, graph2)
              /\ matches[r][2] \notin LoneTypeEntities(graph2, graph1)
        /\ \A r \in 1..Len(build_matches) :
              /\ build_matches[r][1] \notin LoneTypeEntities(graph1, graph2)
              /\ build_matches[r][2] \notin LoneTypeEntities(graph2, graph1)

\* a source entity of a type the target graph lacks, with a cosine that reaches
\* the threshold, in a run that returns candidates of another type
C20_Witness ==
    /\ pc = "returned"
    /\ Len(build_matches) > 0
    /\ \E i \in 1..Len(ids1), j \in 1..Len(ids2) :
          /\ ids1[i] \in LoneTypeEntities(graph1, graph2)
          /\ RatGeq(sim_matrix[i][j], threshold)

-----------------------------------------------------------------------------
(* SpecEmpty: the pipeline on graphs one of which has no typed entity, and *)
(* match_entities on matrices without rows or without columns.             *)

NoTypedEntity == typed_subjects(graph1) = {} \/ typed_subjects(graph2) = {}

EmptyMatrix == ids1 = <<>> \/ ids2 = <<>>

InitEmpty ==
    \/ Init /\ NoTypedEntity
    \/ InitMatch /\ EmptyMatrix

NextEmpty == DeduplicateGraphs \/ BuildFinalResult \/ CallMatchEntities

SpecEmpty == InitEmpty /\ [][NextEmpty]_vars

\* C21: when either graph has no typed entity, deduplicate_graphs and
\* build_final_result complete without an error and give no record, the literal
\* adjudication on or off; match_entities on a matrix without rows or without
\* columns returns the empty list.
C21_EmptyIsNotAnError ==
    /\ (pc \in {"returned", "built"} /\ NoTypedEntity) =>
          /\ error = "none"
          /\ matches = <<>> /\ build_matches = <<>>
          /\ final_result = <<>>
    /\ (pc = "matched" /\ EmptyMatrix) =>
          /\ error = "none"
          /\ matches = <<>>

\* a run with the literal adjudication on, built to the end, on a source graph
\* that holds triples and no typed entity, the target graph holding typed ones
C21_Witness ==
    /\ pc = "built"
    /\ filter_literals
    /\ graph1 # {} /\ typed_subjects(graph1) = {}
    /\ typed_subjects(graph2) # {}
    /\ final_result = <<>> /\ error = "none"

-----------------------------------------------------------------------------
(* match_entities with top_k at least the number of rows.                  *)

\* the cells of the matrix at or above the threshold
CellsAtThreshold ==
    {<<ids1[i], ids2[j], sim_matrix[i][j]>> :
        <<i, j>> \in {c \in (1..Len(ids1)) \X (1..Len(ids2)) :
                        RatGeq(sim_matrix[c[1]][c[2]], threshold)}}

\* C22: with top_k at least the number of source entities of the matrix,
\* match_entities returns exactly the cells whose similarity is >= threshold,
\* each once: pure thresholding.
C22_PureThresholding ==
    (pc = "matched" /\ top_k >= Len(ids1)) =>
        /\ {matches[r] : r \in 1..Len(matches)} = CellsAtThreshold
        /\ Len(matches) = Cardinality(CellsAtThreshold)

\* three rows, top_k 3, a column with a cell equal to the threshold, one above
\* and one below
C22_Witness ==
    /\ pc = "matched"
    /\ Len(ids1) = 3 /\ top_k = 3
    /\ \E j \in 1..Len(ids2) : \E i, k, l \in 1..Len(ids1) :
          /\ sim_matrix[i][j] = threshold
          /\ RatLt(threshold, sim_matrix[k][j])
          /\ RatLt(sim_matrix[l][j], threshold)
          /\ Returned(i, j) /\ Returned(k, j) /\ ~Returned(l, j)

-----------------------------------------------------------------------------
(* Fixed-weight fusion.                                                    *)

IsFinite(v) == \A i \in 1..Len(v) : v[i] # NaN

HasGraphVector == "e1" \in DOMAIN call.arg.graph_embeddings

\* the relation vector of the call: the entity's graph vector, or zeros
RelationVector ==
    IF HasGraphVector THEN call.arg.graph_embeddings["e1"]
    ELSE [i \in 1..VectorDim |-> <<0, 1>>]

\* the vectors of the call are of dimension D and finite
WellFormedVectors ==
    /\ Len(call.arg.text_vector) = VectorDim /\ IsFinite(call.arg.text_vector)
    /\ Len(RelationVector) = VectorDim /\ IsFinite(RelationVector)

\* x = (a/b) * t + (1 - a/b) * r, in integers
IsWeightedSum(x, alpha, t, r) ==
    x[1] * (alpha[2] * t[2] * r[2])
        = x[2] * (alpha[1] * t[1] * r[2] + (alpha[2] - alpha[1]) * r[1] * t[2])

\* C23: get_hybrid_vector returns alpha * text + (1 - alpha) * relation
\* elementwise, relation being the entity's graph vector or zeros when it has
\* none; a missing graph vector raises nothing; alpha = 1 gives the text vector
\* and alpha = 0 the relation vector.
C23_FixedFusion ==
    (Called("get_hybrid_vector") /\ WellFormedVectors) =>
        /\ ret.error = "none"
        /\ Len(ret.value) = VectorDim
        /\ \A i \in 1..VectorDim :
              IsWeightedSum(ret.value[i], call.arg.alpha,
                            call.arg.text_vector[i], RelationVector[i])
        /\ call.arg.alpha = <<1, 1>> => ret.value = call.arg.text_vector
        /\ call.arg.alpha = <<0, 1>> => ret.value = RelationVector

\* an entity without a graph vector, fused with alpha 1/4: a quarter of its
\* text vector
C23_Witness ==
    /\ Called("get_hybrid_vector")
    /\ ~HasGraphVector
    /\ call.arg.alpha = <<1, 4>>
    /\ call.arg.text_vector = <<<<1, 1>>, <<-1, 2>>>>
    /\ ret.error = "none"
    /\ ret.value = <<<<1, 4>>, <<-1, 8>>>>

-----------------------------------------------------------------------------
(* Adaptive fusion: the weights.                                           *)

Zero == <<0, 1>>

\* the sum of the three values, in integers: numerator over a common denominator
SumNumerator(w) == w[1][1] * w[2][2] * w[3][2] + w[2][1] * w[1][2] * w[3][2] + w[3][1] * w[1][2] * w[2][2]
SumDenominator(w) == w[1][2] * w[2][2] * w[3][2]

AllNonNegative(w) == \A i \in 1..3 : w[i][1] >= 0
AllNonPositive(w) == \A i \in 1..3 : w[i][1] <= 0
EqualWeights(w) == \A i \in 1..3 : w[i] = <<1, 3>>

\* w[i] = s[i] / (s[1] + s[2] + s[3]) for the three i
SimilaritiesOverSum(w, sims) ==
    /\ SumNumerator(sims) # 0
    /\ \A i \in 1..3 :
          w[i][1] * sims[i][2] * SumNumerator(sims) = sims[i][1] * SumDenominator(sims) * w[i][2]

\* C24: the three weights of combine_embeddings sum to 1; each is >= 0 when the
\* three similarities to the mean are non-negative; they are 1/3 each when the
\* three similarities are all <= 0.
C24_WeightsSumToOne ==
    Called("combine_embeddings") =>
        /\ SumNumerator(ret.weights) = SumDenominator(ret.weights)
        /\ AllNonNegative(ret.sims) => AllNonNegative(ret.weights)
        /\ AllNonPositive(ret.sims) => EqualWeights(ret.weights)

\* three views with positive similarities, unequal weights that sum to 1
C24_Witness ==
    /\ Called("combine_embeddings")
    /\ \A i \in 1..3 : ret.sims[i][1] > 0
    /\ ret.weights[1] # ret.weights[2]
    /\ SumNumerator(ret.weights) = SumDenominator(ret.weights)

\* C25 (as claimed): the weights are 1/3 each only when the three similarities
\* are all <= 0; in every other case, mixed signs with one similarity > 0
\* included, they are the similarities divided by their sum.
C25_FallbackOnlyAllNonPositive ==
    Called("combine_embeddings") =>
        IF AllNonPositive(ret.sims) THEN EqualWeights(ret.weights)
        ELSE SimilaritiesOverSum(ret.weights, ret.sims)

\* C25 (amended): the weights are 1/3 each exactly when the sum of the three
\* similarities is <= 0, which covers mixed signs of non-positive sum; when the
\* sum is > 0 they are the similarities divided by their sum, a negative
\* similarity giving a negative weight.
C25_FallbackOnNonPositiveSum ==
    Called("combine_embeddings") =>
        IF SumNumerator(ret.sims) <= 0 THEN EqualWeights(ret.weights)
        ELSE SimilaritiesOverSum(ret.weights, ret.sims)

\* one similarity > 0, the sum negative: equal weights
C25_Witness ==
    /\ Called("combine_embeddings")
    /\ \E i \in 1..3 : ret.sims[i][1] > 0
    /\ SumNumerator(ret.sims) < 0
    /\ EqualWeights(ret.weights)

-----------------------------------------------------------------------------
(* Malformed view vectors.                                                 *)

\* the graph vector of e1 is of another dimension than D, or holds a nan
MalformedGraphVector ==
    /\ HasGraphVector
    /\ (Len(call.arg.graph_embeddings["e1"]) # VectorDim
            \/ ~IsFinite(call.arg.graph_embeddings["e1"]))

\* C26 (as claimed): a view vector of another dimension than D, or with a
\* non-finite value, makes the run fail: the hybrid branch returns no fused
\* vector for the entity and hands no matrix on to the selection.
C26_MalformedVectorFails ==
    (Called("hybrid_embeddings") /\ (MalformedGraphVector \/ ~IsFinite(call.arg.emb1[1]))) =>
        ret.error # "none"

-----------------------------------------------------------------------------
(* SpecBoost: Levenshtein_filter on one candidate under every acronym      *)
(* boost tried.                                                            *)

\* values of the keyword parameter acronym_boost, the ends of [0, 1] included
AcronymBoosts == {<<0, 1>>, <<1, 2>>, DefaultAcronymBoost, <<1, 1>>}

InitBoost ==
    /\ pc = "start"
    /\ matches \in {<< <<URIRef("e1"), URIRef("e1"), s>> >> : s \in CandidateScores}
    /\ literals1 \in [{"e1"} -> LiteralMaps]
    /\ literals2 \in [{"e1"} -> LiteralMaps]
    /\ filter \in BOOLEAN
    /\ acronym_boost \in AcronymBoosts
    /\ filtered = <<>>
    /\ graph1 = {} /\ graph2 = {}
    /\ sim_matrix = <<>> /\ ids1 = <<>> /\ ids2 = <<>>
    /\ threshold = Unused /\ top_k = 0 /\ filter_literals = TRUE
    /\ build_matches = <<>> /\ final_result = <<>>
    /\ error = "none"
    /\ AuxUnused

SpecBoost == InitBoost /\ [][NextLev]_vars

\* C27: every record Levenshtein_filter returns has an average literal
\* similarity in [0, 1] and a status that is "pass" or "fail", whatever the
\* acronym boost in [0, 1] and whatever the two literal maps.
C27_AverageAndStatusInRange ==
    pc \in {"filtered", "flagged"} =>
        \A i \in 1..Len(filtered) :
            /\ filtered[i][4][2] > 0
            /\ RatGeq(filtered[i][4], <<0, 1>>)
            /\ RatGeq(<<1, 1>>, filtered[i][4])
            /\ filtered[i][5] \in {"pass", "fail"}

\* a pair of different names is lifted to the average 1 by the boost 1
C27_Witness ==
    /\ pc = "filtered"
    /\ acronym_boost = <<1, 1>>
    /\ literals1["e1"] # literals2["e1"]
    /\ DOMAIN literals1["e1"] = {NAME, EMAIL}
    /\ DOMAIN literals2["e1"] = {NAME, EMAIL}
    /\ Len(filtered) = 1
    /\ filtered[1][4] = <<1, 1>>
    /\ filtered[1][5] = "pass"

-----------------------------------------------------------------------------
(* The record of a pair and the pairs before it.                           *)

\* what build_final_result does with the pair at position i when it stands
\* alone, and when it follows the pairs before it
RecordAlone(i) ==
    build_final_result(<<build_matches[i]>>, graph1, graph2, "phkg_graph", "g2")
RecordInPlace(i) ==
    build_final_result(SubSeq(build_matches, 1, i), graph1, graph2, "phkg_graph", "g2")

\* the loop reaches position i: no pair before it raises
Reaches(i) ==
    build_final_result(SubSeq(build_matches, 1, i - 1), graph1, graph2,
                       "phkg_graph", "g2").error = "none"

\* C28 (as claimed): the record of a pair depends on the pair and the graphs
\* only: a pair the loop reaches yields the record, or the error, it yields
\* when it stands first, with or without a literal similarity.
C28_RecordIndependentOfPosition ==
    pc = "built" =>
        \A i \in 1..Len(build_matches) :
            Reaches(i) =>
                /\ RecordInPlace(i).error = RecordAlone(i).error
                /\ RecordAlone(i).error = "none" =>
                        RecordInPlace(i).final_result[i] = RecordAlone(i).final_result[1]

-----------------------------------------------------------------------------
(* The returned list against the candidate list.                           *)

\* each record of `out` carries the ids and the score of a candidate of `inp`,
\* the candidates taken in increasing positions, none twice
IsSubsequenceOf(out, inp) ==
    \E f \in [1..Len(out) -> 1..Len(inp)] :
        /\ \A i, j \in 1..Len(out) : i < j => f[i] < f[j]
        /\ \A i \in 1..Len(out) :
              /\ out[i][1] = inp[f[i]][1]
              /\ out[i][2] = inp[f[i]][2]
              /\ out[i][3] = inp[f[i]][3]

\* C29: Levenshtein_filter returns a subsequence of its candidates: ids and
\* score unchanged, the order kept, no candidate twice; the candidate list and
\* the two literal maps are as they were before the call.
C29_ReturnsSubsequence ==
    [][pc' = "filtered" =>
          /\ IsSubsequenceOf(filtered', matches)
          /\ matches' = matches
          /\ literals1' = literals1
          /\ literals2' = literals2]_vars

\* two candidates of different sources, both returned
C29_Witness ==
    /\ pc = "filtered"
    /\ Len(matches) = 2
    /\ Len(filtered) = 2
    /\ matches[1][1] # matches[2][1]
    /\ filtered[1][1] = matches[1][1]
    /\ filtered[2][1] = matches[2][1]

-----------------------------------------------------------------------------
(* SpecTraverse: traverse_graph_and_get_literals step by step, with the    *)
(* stack of the calls of traverse.                                         *)

\* the interpreter's limit on nested calls (sys.getrecursionlimit(); no script
\* of the repository changes it).  The frames below traverse are not counted
RecursionLimit == 1000

LinkPredicate == URIRef("http://schema.org/address")

\* graphs over two URI nodes and a blank node: any set of links among them,
\* self-loops and cycles included, and some literals
LoopNodes == {URIRef("e1"), URIRef("e2"), BNode("b1")}
LoopLiterals ==
    {<<URIRef("e1"), URIRef("http://schema.org/name"), Literal(<<"a", "b">>)>>,
     <<URIRef("e1"), URIRef("http://schema.org/identifier"), Literal(<<"0", "1">>)>>,
     <<BNode("b1"), URIRef("http://schema.org/name"), Literal(<<"x">>)>>}
LoopGraphs ==
    {links \cup LoopLiterals : links \in SUBSET {<<a, LinkPredicate, b>> : a, b \in LoopNodes}}

\* a chain of `length` links n1 -> n2 -> ...
ChainNode(i) == URIRef("n" \o ToString(i))
Chain(length) == {<<ChainNode(i), LinkPredicate, ChainNode(i + 1)>> : i \in 1..length}

\* a graph is kept as a set of triples and the length of a chain: its triples
\* are those of the set and those of the chain
TriplesOf(g) == g.triples \cup Chain(g.chain)

\* the graphs traversed: the loop graphs from e1, and from n1 a chain one node
\* longer than the limit on nested calls
TraverseCalls ==
    {[fn |-> "traverse_graph_and_get_literals",
      arg |-> [graph |-> [triples |-> g, chain |-> 0], subject |-> URIRef("e1")]] :
        g \in LoopGraphs}
    \cup {[fn |-> "traverse_graph_and_get_literals",
           arg |-> [graph |-> [triples |-> {}, chain |-> RecursionLimit],
                    subject |-> ChainNode(1)]]}

InitTraverse ==
    /\ pc = "start"
    /\ call \in TraverseCalls
    /\ ret = Unused
    /\ second_run = Unused
    /\ graph1 = {} /\ graph2 = {}
    /\ sim_matrix = <<>> /\ ids1 = <<>> /\ ids2 = <<>>
    /\ threshold = Unused /\ top_k = 0 /\ filter_literals = TRUE
    /\ matches = <<>> /\ literals1 = EmptyDict /\ literals2 = EmptyDict
    /\ filter = DefaultFilter /\ acronym_boost = DefaultAcronymBoost
    /\ filtered = <<>> /\ build_matches = <<>> /\ final_result = <<>>
    /\ error = "none"

\* the first lines of traverse for a subject not in visited: its entry is made
\* and the loop over graph.predicate_objects(subject) begins in a new frame
enter_subject(r, graph, subject) ==
    [r EXCEPT !.visited = [k \in DOMAIN @ \cup {str(subject)} |->
                              IF k = str(subject) THEN EmptyDict ELSE @[k]],
              !.stack = Append(@, [subject |-> subject,
                                   edges |-> predicate_objects(graph, subject)]),
              !.entered = Append(@, subject)]

\* the frame of the running call, and the state with one (predicate, object)
\* pair of its loop consumed
TopFrame == ret.stack[Len(ret.stack)]
EdgeDone(e) == [ret EXCEPT !.stack[Len(ret.stack)].edges = @ \ {e}]

\* return traverse(subject, {})
TraverseCall ==
    /\ pc = "start"
    /\ call.fn = "traverse_graph_and_get_literals"
    /\ ret' = enter_subject([visited |-> EmptyDict, stack |-> <<>>, entered |-> <<>>,
                             error |-> "none"],
                            TriplesOf(call.arg.graph), call.arg.subject)
    /\ pc' = "traversing"
    /\ UNCHANGED <<graph1, graph2, sim_matrix, ids1, ids2, threshold, top_k, filter_literals,
                   matches, literals1, literals2, filter, acronym_boost, filtered,
                   build_matches, final_result, error, second_run, call>>

\* an iteration of the loop on a literal object
TraverseLiteral ==
    /\ pc = "traversing"
    /\ \E e \in TopFrame.edges :
          /\ e[2].kind = "Literal"
          /\ LET pred_str == get_prefixed_predicate(str(e[1]))
                 subject == TopFrame.subject
             IN  ret' = IF pred_str \notin WEAK_PREDICATES
                        THEN [EdgeDone(e) EXCEPT !.visited[str(subject)] =
                                 [q \in DOMAIN @ \cup {pred_str} |->
                                     IF q = pred_str THEN str(e[2]) ELSE @[q]]]
                        ELSE EdgeDone(e)
    /\ pc' = pc
    /\ UNCHANGED <<graph1, graph2, sim_matrix, ids1, ids2, threshold, top_k, filter_literals,
                   matches, literals1, literals2, filter, acronym_boost, filtered,
                   build_matches, final_result, error, second_run, call>>

\* an iteration of the loop on a URI or blank node: traverse(obj, visited).  The
\* call needs a frame; beyond the limit it raises RecursionError, which nothing
\* catches.  On a visited object it returns at once
TraverseDescend ==
    /\ pc = "traversing"
    /\ \E e \in TopFrame.edges :
          /\ e[2].kind \in {"URIRef", "BNode"}
          /\ IF Len(ret.stack) + 1 > RecursionLimit
             THEN /\ ret' = [ret EXCEPT !.error = "RecursionError"]
                  /\ pc' = "called"
             ELSE /\ ret' = IF str(e[2]) \in DOMAIN ret.visited
                            THEN EdgeDone(e)
                            ELSE enter_subject(EdgeDone(e), TriplesOf(call.arg.graph), e[2])
                  /\ pc' = pc
    /\ UNCHANGED <<graph1, graph2, sim_matrix, ids1, ids2, threshold, top_k, filter_literals,
                   matches, literals1, literals2, filter, acronym_boost, filtered,
                   build_matches, final_result, error, second_run, call>>

\* the loop is over: return visited
TraverseReturn ==
    /\ pc = "traversing"
    /\ TopFrame.edges = {}
    /\ ret' = [ret EXCEPT !.stack = SubSeq(@, 1, Len(@) - 1)]
    /\ pc' = IF Len(ret.stack) = 1 THEN "called" ELSE "traversing"
    /\ UNCHANGED <<graph1, graph2, sim_matrix, ids1, ids2, threshold, top_k, filter_literals,
                   matches, literals1, literals2, filter, acronym_boost, filtered,
                   build_matches, final_result, error, second_run, call>>

NextTraverse == TraverseCall \/ TraverseLiteral \/ TraverseDescend \/ TraverseReturn

SpecTraverse == InitTraverse /\ [][NextTraverse]_vars

\* the nodes a path of links leads to from the nodes S
RECURSIVE ReachableFrom(_, _)
ReachableFrom(graph, S) ==
    LET next == S \cup {t[3] : t \in {u \in graph : u[1] \in S /\ u[3].kind # "Literal"}}
    IN  IF next = S THEN S ELSE ReachableFrom(graph, next)

\* C30 (as claimed): on every finite graph, cycles and self-loops among URI and
\* blank nodes included, the traversal returns: no node is entered twice and the
\* result has one entry for each node reachable from the start subject.
C30_TraversalCompletes ==
    Called("traverse_graph_and_get_literals") =>
        /\ ret.error = "none"
        /\ \A i, j \in 1..Len(ret.entered) : i # j => ret.entered[i] # ret.entered[j]
        /\ DOMAIN ret.visited =
              {str(n) : n \in ReachableFrom(TriplesOf(call.arg.graph), {call.arg.subject})}

\* within the limit on nested calls the step-by-step traversal returns what
\* traverse returns, each reachable node entered once
TraversalWithinLimit ==
    (Called("traverse_graph_and_get_literals") /\ call.arg.graph.chain = 0) =>
        /\ ret.error = "none"
        /\ ret.visited = traverse_graph_and_get_literals(call.arg.graph.triples, call.arg.subject)
        /\ \A i, j \in 1..Len(ret.entered) : i # j => ret.entered[i] # ret.entered[j]
        /\ DOMAIN ret.visited =
              {str(n) : n \in ReachableFrom(TriplesOf(call.arg.graph), {call.arg.subject})}

====
